---- MODULE Spec2Model ----
(***************************************************************************)
(* Interval trainer: the session timeline engine.                          *)
(*                                                                         *)
(*   - buildPhases / totalSessionSec / computeRemainingTotal(WithPreWork)  *)
(*     (src/src/App.tsx), the pure plan functions;                         *)
(*   - Runner (src/src/App.tsx), the time based runner state machine with  *)
(*     its pre-work countdown, and its saveToHistory commit;               *)
(*   - RepRunner (src/src/App.tsx), the user paced repetition runner;      *)
(*   - RunnerView (src/unnamed/part_002), the endAt-timestamp based runner.*)
(*                                                                         *)
(* One runner component is mounted at a time (App renders RepRunner or     *)
(* Runner for the active card); `mounted` says which one.                  *)
(***************************************************************************)
EXTENDS Integers, Sequences, FiniteSets, TLC

VARIABLES
    mounted,      \* which runner component is on screen: "TIME", "REPS", "VIEW"
    card,         \* Runner: the TimeCard prop
    runner,       \* Runner: the RunnerState
    saved,        \* Runner / RepRunner: the "already saved" flag
    profileId,    \* the active profile handed to the mounted runner
    history,      \* App: the history collection, newest first
    idCounter,    \* makeId: number of ids handed out so far
    repCard,      \* RepRunner: the RepCard prop
    rep,          \* RepRunner: [idx, stage, running, t]
    viewCard,     \* RunnerView: the card prop
    view,         \* RunnerView: [status, stepIndex, remainingSec, hasEndAt, msLeft]
    lastOp,       \* history variable: the handler that made the last step
    prevStatus,   \* history variable: the runner's status (stage) before that step
    commitsInRow, \* history variable: saveToHistory calls made in a row
    histLenBefore, \* history variable: Len(history) before the first of them
    beforePause,  \* history variable: <<RunnerState at the last Pause, ticks since>>
    config,       \* planner: the TimingConfig handed to buildPhases
    builtPlan,    \* planner: <<the plan buildPhases returned>>, <<>> before the call
    summary,      \* rep summary: <<[totals, breakdown]>> of repCard, <<>> before
    cards,        \* card storage: the card list the App holds
    storage,      \* card storage: <<value under CARDS_KEY>>, <<>> when unset
    loaded,       \* card storage: <<result of loadCards>>, <<>> before the call
    profiles,     \* import: the App's profile list, newest first
    handsOff,     \* TRUE once the user has stopped touching the Runner
    lastPhaseRef  \* Runner: lastPhaseRef.current, the phase index last cued

vars == <<mounted, card, runner, saved, profileId, history, idCounter,
          repCard, rep, viewCard, view, lastOp, prevStatus, commitsInRow,
          histLenBefore, beforePause, config, builtPlan, summary, cards,
          storage, loaded, profiles, handsOff, lastPhaseRef>>

(***************************************************************************)
(* Bounds.                                                                 *)
(***************************************************************************)
MaxWorkSec == 2
MaxHistory == 2
MaxSetSec == 2
MaxRepSets == 2
MaxLateMs == 1200
MaxPausedTicks == 2
MaxPlanSec == 2
MaxPlanSets == 3
MaxPlanReps == 3
MaxSummarySets == 2
MaxStoredCards == 2

(***************************************************************************)
(* Program constants.                                                      *)
(***************************************************************************)
PRE_WORK_COUNTDOWN == 4
FallbackWorkSec == 20
ViewTickMs == 200

Null == "null"

Max(a, b) == IF a >= b THEN a ELSE b
Min(a, b) == IF a <= b THEN a ELSE b

(***************************************************************************)
(* TIME: building the phases.                                              *)
(***************************************************************************)
Phase(type, label, restKind, durationSec, set, rep_) ==
    [type |-> type, label |-> label, restKind |-> restKind,
     durationSec |-> durationSec, set |-> set, rep |-> rep_]

\* Variant: the WORK phase is tagged with the set only, rep 1.
RepBodyWorkTaggedRepOne(t, s, r, reps) ==
    (IF t.workSec > 0
        THEN <<Phase("WORK", "ARBEIT", Null, t.workSec, s, 1)>>
        ELSE <<>>)
    \o
    (IF r < reps /\ t.restBetweenRepsSec > 0
        THEN <<Phase("REST", "PAUSE (Wdh)", "REP", t.restBetweenRepsSec, s, r)>>
        ELSE <<>>)

\* Variant: a rep rest also follows the last rep of a set.
RepBodyRestAfterLastRep(t, s, r, reps) ==
    (IF t.workSec > 0
        THEN <<Phase("WORK", "ARBEIT", Null, t.workSec, s, r)>>
        ELSE <<>>)
    \o
    (IF r <= reps /\ t.restBetweenRepsSec > 0
        THEN <<Phase("REST", "PAUSE (Wdh)", "REP", t.restBetweenRepsSec, s, r)>>
        ELSE <<>>)

\* Variant: the WORK phase is emitted whatever its duration.
RepBodyEmitsZeroWork(t, s, r, reps) ==
    <<Phase("WORK", "ARBEIT", Null, t.workSec, s, r)>>
    \o
    (IF r < reps /\ t.restBetweenRepsSec > 0
        THEN <<Phase("REST", "PAUSE (Wdh)", "REP", t.restBetweenRepsSec, s, r)>>
        ELSE <<>>)

\* Body of the inner loop of buildPhases for one (s, r).
RepBody(t, s, r, reps) ==
    (IF t.workSec > 0
        THEN <<Phase("WORK", "ARBEIT", Null, t.workSec, s, r)>>
        ELSE <<>>)
    \o
    (IF r < reps /\ t.restBetweenRepsSec > 0
        THEN <<Phase("REST", "PAUSE (Wdh)", "REP", t.restBetweenRepsSec, s, r)>>
        ELSE <<>>)

RECURSIVE RepLoop(_, _, _, _)
\* for (let r = from; r <= reps; r++) { ... }
RepLoop(t, s, r, reps) ==
    IF r > reps THEN <<>>
    ELSE RepBody(t, s, r, reps) \o RepLoop(t, s, r + 1, reps)

RECURSIVE SetLoop(_, _, _, _)
\* for (let s = from; s <= sets; s++) { rep loop; set rest }
SetLoop(t, s, sets, reps) ==
    IF s > sets THEN <<>>
    ELSE RepLoop(t, s, 1, reps)
         \o (IF s < sets /\ t.restBetweenSetsSec > 0
                THEN <<Phase("REST", "PAUSE (Satz)", "SET", t.restBetweenSetsSec, s, reps)>>
                ELSE <<>>)
         \o SetLoop(t, s + 1, sets, reps)

\* Variant: the fallback phase is pushed only when all five durations are 0.
buildPhasesFallbackOnAllZero(c) ==
    LET t == c.timing
        sets == Max(1, t.sets)
        reps == Max(1, t.repsPerSet)
        built ==
            (IF t.warmupSec > 0
                THEN <<Phase("WARMUP", "WARMUP", Null, t.warmupSec, 0, 0)>>
                ELSE <<>>)
            \o SetLoop(t, 1, sets, reps)
            \o (IF t.cooldownSec > 0
                THEN <<Phase("COOLDOWN", "COOLDOWN", Null, t.cooldownSec, 0, 0)>>
                ELSE <<>>)
    IN  IF t.warmupSec = 0 /\ t.workSec = 0 /\ t.restBetweenRepsSec = 0
           /\ t.restBetweenSetsSec = 0 /\ t.cooldownSec = 0
           THEN <<Phase("WORK", "ARBEIT", Null, FallbackWorkSec, 1, 1)>>
           ELSE built

\* Variant: sets and repsPerSet are used as given, without Math.max(1, .).
buildPhasesNoClamp(c) ==
    LET t == c.timing
        sets == t.sets
        reps == t.repsPerSet
        built ==
            (IF t.warmupSec > 0
                THEN <<Phase("WARMUP", "WARMUP", Null, t.warmupSec, 0, 0)>>
                ELSE <<>>)
            \o SetLoop(t, 1, sets, reps)
            \o (IF t.cooldownSec > 0
                THEN <<Phase("COOLDOWN", "COOLDOWN", Null, t.cooldownSec, 0, 0)>>
                ELSE <<>>)
    IN  IF Len(built) = 0
           THEN <<Phase("WORK", "ARBEIT", Null, FallbackWorkSec, 1, 1)>>
           ELSE built

\* Variant: an empty plan is returned as it is.
buildPhasesNoFallback(c) ==
    LET t == c.timing
        sets == Max(1, t.sets)
        reps == Max(1, t.repsPerSet)
    IN  (IF t.warmupSec > 0
            THEN <<Phase("WARMUP", "WARMUP", Null, t.warmupSec, 0, 0)>>
            ELSE <<>>)
        \o SetLoop(t, 1, sets, reps)
        \o (IF t.cooldownSec > 0
            THEN <<Phase("COOLDOWN", "COOLDOWN", Null, t.cooldownSec, 0, 0)>>
            ELSE <<>>)

buildPhases(c) ==
    LET t == c.timing
        sets == Max(1, t.sets)
        reps == Max(1, t.repsPerSet)
        built ==
            (IF t.warmupSec > 0
                THEN <<Phase("WARMUP", "WARMUP", Null, t.warmupSec, 0, 0)>>
                ELSE <<>>)
            \o SetLoop(t, 1, sets, reps)
            \o (IF t.cooldownSec > 0
                THEN <<Phase("COOLDOWN", "COOLDOWN", Null, t.cooldownSec, 0, 0)>>
                ELSE <<>>)
    IN  IF Len(built) = 0
           THEN <<Phase("WORK", "ARBEIT", Null, FallbackWorkSec, 1, 1)>>
           ELSE built

\* phases[i] with the 0-based index of the source.
At(ps, i) == ps[i + 1]

RECURSIVE SumFrom(_, _)
\* sum of durationSec over the 0-based indices i .. length-1
SumFrom(ps, i) ==
    IF i >= Len(ps) THEN 0
    ELSE At(ps, i).durationSec + SumFrom(ps, i + 1)

totalSessionSec(ps) == SumFrom(ps, 0)

computeRemainingTotal(ps, idx, remainingSec) ==
    remainingSec + SumFrom(ps, idx + 1)

RECURSIVE WorkCountFrom(_, _)
\* number of WORK ps at the 0-based indices i .. length-1
WorkCountFrom(ps, i) ==
    IF i >= Len(ps) THEN 0
    ELSE (IF At(ps, i).type = "WORK" THEN 1 ELSE 0) + WorkCountFrom(ps, i + 1)

\* Variant: counts the countdown of the next WORK phase only.
computeRemainingTotalNextWorkOnly(ps, idx, remainingSec, preWorkSec, preWorkCountdown) ==
    LET base == computeRemainingTotal(ps, idx, remainingSec) + Max(0, preWorkSec)
        cd == Max(0, preWorkCountdown)
    IN  IF cd > 0 THEN base + cd * Min(1, WorkCountFrom(ps, idx + 1)) ELSE base

computeRemainingTotalWithPreWork(ps, idx, remainingSec, preWorkSec, preWorkCountdown) ==
    LET base == computeRemainingTotal(ps, idx, remainingSec) + Max(0, preWorkSec)
        cd == Max(0, preWorkCountdown)
    IN  IF cd > 0 THEN base + cd * WorkCountFrom(ps, idx + 1) ELSE base

(***************************************************************************)
(* The cards the runners are mounted on.                                   *)
(***************************************************************************)
Timing(warmupSec, workSec, restBetweenRepsSec, repsPerSet, restBetweenSetsSec, sets, cooldownSec) ==
    [warmupSec |-> warmupSec, workSec |-> workSec,
     restBetweenRepsSec |-> restBetweenRepsSec, repsPerSet |-> repsPerSet,
     restBetweenSetsSec |-> restBetweenSetsSec, sets |-> sets,
     cooldownSec |-> cooldownSec]

\* Two TimeCards: one that starts with a WORK phase and is made of 1-second
\* phases (WORK, REST, WORK), and one that starts with a WARMUP, repeats a
\* WORK phase of MaxWorkSec seconds and ends with a COOLDOWN
\* (WARMUP, WORK, REST, WORK, COOLDOWN).
TimeCards ==
    { [id |-> 1, timing |-> Timing(0, 1, 0, 1, 1, 2, 0)],
      [id |-> 2, timing |-> Timing(1, MaxWorkSec, 1, 2, 0, 1, 1)] }

Profiles == {"p1", "p2"}

(***************************************************************************)
(* TIME Runner.                                                            *)
(***************************************************************************)
phases == buildPhases(card)
totalPlanned == totalSessionSec(phases)
workCount == WorkCountFrom(phases, 0)
totalWithCountdown == totalPlanned + PRE_WORK_COUNTDOWN * workCount

\* phases[0]?.durationSec ?? 0
FirstDuration(ps) == IF Len(ps) > 0 THEN At(ps, 0).durationSec ELSE 0

\* The state Runner is constructed with, and the one stop() and the reset
\* effect set.
IdleState(ps) ==
    [status |-> "IDLE",
     phaseIndex |-> 0,
     remainingSec |-> FirstDuration(ps),
     totalRemainingSec |-> totalSessionSec(ps) + PRE_WORK_COUNTDOWN * WorkCountFrom(ps, 0),
     preWorkSec |-> 0]

\* Variant: enters the next phase without arming the pre-work countdown.
AdvancePhaseNoCountdown(prev, ps) ==
    LET nextIndex == prev.phaseIndex + 1
    IN  IF nextIndex >= Len(ps)
           THEN [prev EXCEPT !.status = "FINISHED", !.remainingSec = 0,
                             !.totalRemainingSec = 0, !.preWorkSec = 0]
           ELSE LET nextRem == At(ps, nextIndex).durationSec
                IN  [prev EXCEPT !.status = "RUNNING",
                                 !.phaseIndex = nextIndex,
                                 !.remainingSec = nextRem,
                                 !.preWorkSec = 0,
                                 !.totalRemainingSec =
                                     computeRemainingTotalWithPreWork(ps, nextIndex, nextRem, 0, PRE_WORK_COUNTDOWN)]

\* Phase end: the next phase, or FINISHED (tick callback, branch 3).
AdvancePhase(prev, ps) ==
    LET nextIndex == prev.phaseIndex + 1
    IN  IF nextIndex >= Len(ps)
           THEN [prev EXCEPT !.status = "FINISHED", !.remainingSec = 0,
                             !.totalRemainingSec = 0, !.preWorkSec = 0]
           ELSE LET nextPhase == At(ps, nextIndex)
                    nextRem == nextPhase.durationSec
                    nextPre == IF nextPhase.type = "WORK" THEN PRE_WORK_COUNTDOWN ELSE 0
                IN  [prev EXCEPT !.status = "RUNNING",
                                 !.phaseIndex = nextIndex,
                                 !.remainingSec = nextRem,
                                 !.preWorkSec = nextPre,
                                 !.totalRemainingSec =
                                     computeRemainingTotalWithPreWork(ps, nextIndex, nextRem, nextPre, PRE_WORK_COUNTDOWN)]

\* Variant: the countdown tick is charged against the phase's duration.
TickUpdateChargesCountdown(prev, ps) ==
    IF prev.status # "RUNNING" THEN prev
    ELSE IF prev.preWorkSec > 0 THEN
        LET nextPre == Max(0, prev.preWorkSec - 1)
            nextRem == Max(1, prev.remainingSec - 1)
        IN  [prev EXCEPT !.preWorkSec = nextPre,
                         !.remainingSec = nextRem,
                         !.totalRemainingSec =
                             computeRemainingTotalWithPreWork(ps, prev.phaseIndex, nextRem, nextPre, PRE_WORK_COUNTDOWN)]
    ELSE IF prev.remainingSec > 1 THEN
        LET nextRem == prev.remainingSec - 1
        IN  [prev EXCEPT !.remainingSec = nextRem,
                         !.totalRemainingSec =
                             computeRemainingTotalWithPreWork(ps, prev.phaseIndex, nextRem, 0, PRE_WORK_COUNTDOWN)]
    ELSE AdvancePhase(prev, ps)

\* Variant: at a phase end the tick keeps advancing over 1-second phases
\* (a catch-up loop).
TickUpdateCatchUp(prev, ps) ==
    IF prev.status # "RUNNING" THEN prev
    ELSE IF prev.preWorkSec > 0 THEN
        LET nextPre == Max(0, prev.preWorkSec - 1)
        IN  [prev EXCEPT !.preWorkSec = nextPre,
                         !.totalRemainingSec =
                             computeRemainingTotalWithPreWork(ps, prev.phaseIndex, prev.remainingSec, nextPre, PRE_WORK_COUNTDOWN)]
    ELSE IF prev.remainingSec > 1 THEN
        LET nextRem == prev.remainingSec - 1
        IN  [prev EXCEPT !.remainingSec = nextRem,
                         !.totalRemainingSec =
                             computeRemainingTotalWithPreWork(ps, prev.phaseIndex, nextRem, 0, PRE_WORK_COUNTDOWN)]
    ELSE LET one == AdvancePhase(prev, ps)
         IN  IF one.status = "RUNNING" /\ one.remainingSec <= 1 /\ one.preWorkSec = 0
                THEN AdvancePhase(one, ps)
                ELSE one

\* Variant: a tick restarts a FINISHED run instead of returning prev.
TickUpdateNoStatusGuard(prev, ps) ==
    IF prev.status = "PAUSED" \/ prev.status = "IDLE" THEN prev
    ELSE IF prev.preWorkSec > 0 THEN
        LET nextPre == Max(0, prev.preWorkSec - 1)
        IN  [prev EXCEPT !.preWorkSec = nextPre,
                         !.totalRemainingSec =
                             computeRemainingTotalWithPreWork(ps, prev.phaseIndex, prev.remainingSec, nextPre, PRE_WORK_COUNTDOWN)]
    ELSE IF prev.remainingSec > 1 THEN
        LET nextRem == prev.remainingSec - 1
        IN  [prev EXCEPT !.remainingSec = nextRem,
                         !.totalRemainingSec =
                             computeRemainingTotalWithPreWork(ps, prev.phaseIndex, nextRem, 0, PRE_WORK_COUNTDOWN)]
    ELSE IF prev.status = "FINISHED" THEN
        [prev EXCEPT !.status = "RUNNING", !.phaseIndex = 0,
                     !.remainingSec = FirstDuration(ps),
                     !.totalRemainingSec =
                         computeRemainingTotalWithPreWork(ps, 0, FirstDuration(ps), 0, PRE_WORK_COUNTDOWN)]
    ELSE AdvancePhase(prev, ps)

\* Variant: a countdown tick also takes a second off the phase, never below 1.
TickUpdateCountdownEatsPhase(prev, ps) ==
    IF prev.status # "RUNNING" THEN prev
    ELSE IF prev.preWorkSec > 0 THEN
        LET nextPre == Max(0, prev.preWorkSec - 1)
            nextRem == Max(1, prev.remainingSec - 1)
        IN  [prev EXCEPT !.preWorkSec = nextPre,
                         !.remainingSec = nextRem,
                         !.totalRemainingSec =
                             computeRemainingTotalWithPreWork(ps, prev.phaseIndex, prev.remainingSec, nextPre, PRE_WORK_COUNTDOWN)]
    ELSE IF prev.remainingSec > 1 THEN
        LET nextRem == prev.remainingSec - 1
        IN  [prev EXCEPT !.remainingSec = nextRem,
                         !.totalRemainingSec =
                             computeRemainingTotalWithPreWork(ps, prev.phaseIndex, nextRem, 0, PRE_WORK_COUNTDOWN)]
    ELSE AdvancePhase(prev, ps)

\* Variant: inside a phase the tick counts remainingSec down to 0.
TickUpdateRunsToZero(prev, ps) ==
    IF prev.status # "RUNNING" THEN prev
    ELSE IF prev.preWorkSec > 0 THEN
        LET nextPre == Max(0, prev.preWorkSec - 1)
        IN  [prev EXCEPT !.preWorkSec = nextPre,
                         !.totalRemainingSec =
                             computeRemainingTotalWithPreWork(ps, prev.phaseIndex, prev.remainingSec, nextPre, PRE_WORK_COUNTDOWN)]
    ELSE IF prev.remainingSec > 0 THEN
        LET nextRem == prev.remainingSec - 1
        IN  [prev EXCEPT !.remainingSec = nextRem,
                         !.totalRemainingSec =
                             computeRemainingTotalWithPreWork(ps, prev.phaseIndex, nextRem, 0, PRE_WORK_COUNTDOWN)]
    ELSE AdvancePhase(prev, ps)

\* Variant: a countdown tick leaves totalRemainingSec as it was.
TickUpdateKeepsTotal(prev, ps) ==
    IF prev.status # "RUNNING" THEN prev
    ELSE IF prev.preWorkSec > 0 THEN
        LET nextPre == Max(0, prev.preWorkSec - 1)
        IN  [prev EXCEPT !.preWorkSec = nextPre]
    ELSE IF prev.remainingSec > 1 THEN
        LET nextRem == prev.remainingSec - 1
        IN  [prev EXCEPT !.remainingSec = nextRem,
                         !.totalRemainingSec =
                             computeRemainingTotalWithPreWork(ps, prev.phaseIndex, nextRem, 0, PRE_WORK_COUNTDOWN)]
    ELSE AdvancePhase(prev, ps)

\* The updater of the interval callback.
TickUpdate(prev, ps) ==
    IF prev.status # "RUNNING" THEN prev
    ELSE IF prev.preWorkSec > 0 THEN
        LET nextPre == Max(0, prev.preWorkSec - 1)
        IN  [prev EXCEPT !.preWorkSec = nextPre,
                         !.totalRemainingSec =
                             computeRemainingTotalWithPreWork(ps, prev.phaseIndex, prev.remainingSec, nextPre, PRE_WORK_COUNTDOWN)]
    ELSE IF prev.remainingSec > 1 THEN
        LET nextRem == prev.remainingSec - 1
        IN  [prev EXCEPT !.remainingSec = nextRem,
                         !.totalRemainingSec =
                             computeRemainingTotalWithPreWork(ps, prev.phaseIndex, nextRem, 0, PRE_WORK_COUNTDOWN)]
    ELSE AdvancePhase(prev, ps)

\* Variant: Resume restarts the current phase from its full duration.
StartPauseResumeRestartsPhase(prev, ps) ==
    IF prev.status = "IDLE" \/ prev.status = "FINISHED" THEN
        LET idx == 0
            rem == FirstDuration(ps)
            firstPre == IF Len(ps) > 0 /\ At(ps, 0).type = "WORK" THEN PRE_WORK_COUNTDOWN ELSE 0
        IN  [status |-> "RUNNING",
             phaseIndex |-> idx,
             remainingSec |-> rem,
             preWorkSec |-> firstPre,
             totalRemainingSec |-> computeRemainingTotalWithPreWork(ps, idx, rem, firstPre, PRE_WORK_COUNTDOWN)]
    ELSE IF prev.status = "RUNNING" THEN [prev EXCEPT !.status = "PAUSED"]
    ELSE IF prev.status = "PAUSED" THEN
        [prev EXCEPT !.status = "RUNNING",
                     !.remainingSec = At(ps, prev.phaseIndex).durationSec]
    ELSE prev

\* Variant: Start resumes at the index the last run stopped at.
StartPauseResumeKeepsIndex(prev, ps) ==
    IF prev.status = "IDLE" \/ prev.status = "FINISHED" THEN
        LET idx == prev.phaseIndex
            rem == At(ps, idx).durationSec
            firstPre == IF At(ps, idx).type = "WORK" THEN PRE_WORK_COUNTDOWN ELSE 0
        IN  [status |-> "RUNNING",
             phaseIndex |-> idx,
             remainingSec |-> rem,
             preWorkSec |-> firstPre,
             totalRemainingSec |-> computeRemainingTotalWithPreWork(ps, idx, rem, firstPre, PRE_WORK_COUNTDOWN)]
    ELSE IF prev.status = "RUNNING" THEN [prev EXCEPT !.status = "PAUSED"]
    ELSE IF prev.status = "PAUSED" THEN [prev EXCEPT !.status = "RUNNING"]
    ELSE prev

\* The updater of startPauseResume.
StartPauseResumeUpdate(prev, ps) ==
    IF prev.status = "IDLE" \/ prev.status = "FINISHED" THEN
        LET idx == 0
            rem == FirstDuration(ps)
            firstPre == IF Len(ps) > 0 /\ At(ps, 0).type = "WORK" THEN PRE_WORK_COUNTDOWN ELSE 0
        IN  [status |-> "RUNNING",
             phaseIndex |-> idx,
             remainingSec |-> rem,
             preWorkSec |-> firstPre,
             totalRemainingSec |-> computeRemainingTotalWithPreWork(ps, idx, rem, firstPre, PRE_WORK_COUNTDOWN)]
    ELSE IF prev.status = "RUNNING" THEN [prev EXCEPT !.status = "PAUSED"]
    ELSE IF prev.status = "PAUSED" THEN [prev EXCEPT !.status = "RUNNING"]
    ELSE prev

\* Variant: skip() enters the next phase without recomputing the total.
SkipAdvanceStaleTotal(prev, ps) ==
    LET nextIndex == prev.phaseIndex + 1
    IN  IF nextIndex >= Len(ps)
           THEN [prev EXCEPT !.status = "FINISHED", !.remainingSec = 0,
                             !.totalRemainingSec = 0, !.preWorkSec = 0]
           ELSE LET nextPhase == At(ps, nextIndex)
                    nextRem == nextPhase.durationSec
                    nextPre == IF nextPhase.type = "WORK" THEN PRE_WORK_COUNTDOWN ELSE 0
                IN  [prev EXCEPT !.status = "RUNNING",
                                 !.phaseIndex = nextIndex,
                                 !.remainingSec = nextRem,
                                 !.preWorkSec = nextPre]

\* Variant: past the last phase skip() stores the index it looked at.
SkipAdvanceStoresPastEnd(prev, ps) ==
    LET nextIndex == prev.phaseIndex + 1
    IN  IF nextIndex >= Len(ps)
           THEN [prev EXCEPT !.status = "FINISHED", !.phaseIndex = nextIndex,
                             !.remainingSec = 0,
                             !.totalRemainingSec = 0, !.preWorkSec = 0]
           ELSE LET nextPhase == At(ps, nextIndex)
                    nextRem == nextPhase.durationSec
                    nextPre == IF nextPhase.type = "WORK" THEN PRE_WORK_COUNTDOWN ELSE 0
                IN  [prev EXCEPT !.status = "RUNNING",
                                 !.phaseIndex = nextIndex,
                                 !.remainingSec = nextRem,
                                 !.preWorkSec = nextPre,
                                 !.totalRemainingSec =
                                     computeRemainingTotalWithPreWork(ps, nextIndex, nextRem, nextPre, PRE_WORK_COUNTDOWN)]

\* Phase end as skip() writes it out (its own copy of the tick's branch 3).
SkipAdvance(prev, ps) ==
    LET nextIndex == prev.phaseIndex + 1
    IN  IF nextIndex >= Len(ps)
           THEN [prev EXCEPT !.status = "FINISHED", !.remainingSec = 0,
                             !.totalRemainingSec = 0, !.preWorkSec = 0]
           ELSE LET nextPhase == At(ps, nextIndex)
                    nextRem == nextPhase.durationSec
                    nextPre == IF nextPhase.type = "WORK" THEN PRE_WORK_COUNTDOWN ELSE 0
                IN  [prev EXCEPT !.status = "RUNNING",
                                 !.phaseIndex = nextIndex,
                                 !.remainingSec = nextRem,
                                 !.preWorkSec = nextPre,
                                 !.totalRemainingSec =
                                     computeRemainingTotalWithPreWork(ps, nextIndex, nextRem, nextPre, PRE_WORK_COUNTDOWN)]

\* Variant: skip advances the phase also during the countdown.
SkipUpdateAlwaysAdvance(prev, ps) == SkipAdvance(prev, ps)

\* The updater of skip.
SkipUpdate(prev, ps) ==
    IF prev.preWorkSec > 0 THEN
        [prev EXCEPT !.preWorkSec = 0,
                     !.totalRemainingSec =
                         computeRemainingTotalWithPreWork(ps, prev.phaseIndex, prev.remainingSec, 0, PRE_WORK_COUNTDOWN)]
    ELSE SkipAdvance(prev, ps)

makeTimeLogEntry(id, pid, c, plannedTotalSec) ==
    [id |-> id, profileId |-> pid, kind |-> "TIME", cardId |-> c.id,
     plannedTotalSec |-> plannedTotalSec]

\* Variant: an entry is dropped when the history has one for the same profile,
\* kind and card.
addHistoryEntryDedup(entry, prev) ==
    IF \E i \in 1..Len(prev) :
          /\ prev[i].profileId = entry.profileId
          /\ prev[i].kind = entry.kind
          /\ prev[i].cardId = entry.cardId
       THEN prev
       ELSE <<entry>> \o prev

\* addHistoryEntry: setHistory((prev) => [entry, ...prev])
addHistoryEntry(entry, prev) == <<entry>> \o prev

\* Bookkeeping of the history variables for a step made by handler op.
Op(op) ==
    /\ lastOp' = op
    /\ prevStatus' = CASE mounted = "TIME" -> runner.status
                        [] mounted = "REPS" -> rep.stage
                        [] OTHER -> view.status
    /\ IF op = "saveToHistory"
          THEN /\ commitsInRow' = Min(2, commitsInRow + 1)
               /\ histLenBefore' = IF commitsInRow = 0 THEN Len(history) ELSE histLenBefore
          ELSE /\ commitsInRow' = 0
               /\ histLenBefore' = 0
    /\ beforePause' =
          CASE op = "pause" -> <<runner, 0>>
            [] op = "tick" /\ beforePause # <<>> /\ runner.status = "PAUSED" ->
                 <<beforePause[1], Min(MaxPausedTicks, beforePause[2] + 1)>>
            [] op = "resume" -> beforePause
            [] OTHER -> <<>>

PlanVars == <<config, builtPlan>>
AppVars == <<summary, cards, storage, loaded, profiles, handsOff, lastPhaseRef>>
RepVars == <<repCard, rep>>
ViewVars == <<viewCard, view>>

\* Variant: the tick that reaches FINISHED logs the session by itself.
TickAutoLogs ==
    /\ mounted = "TIME"
    /\ runner' = TickUpdate(runner, phases)
    /\ Op("tick")
    /\ IF runner.status = "RUNNING" /\ runner'.status = "FINISHED"
             /\ Len(history) < MaxHistory
          THEN /\ history' = addHistoryEntry(
                       makeTimeLogEntry(idCounter + 1, profileId, card, totalPlanned), history)
               /\ idCounter' = idCounter + 1
          ELSE UNCHANGED <<history, idCounter>>
    /\ UNCHANGED <<PlanVars, AppVars, mounted, card, saved, profileId, RepVars, ViewVars>>

\* The interval callback.  The interval is armed while RUNNING; a callback
\* that still fires in another status returns prev.
Tick ==
    /\ mounted = "TIME"
    /\ runner' = TickUpdate(runner, phases)
    /\ Op("tick")
    /\ UNCHANGED <<PlanVars, AppVars, mounted, card, saved, profileId, history, idCounter, RepVars, ViewVars>>

\* Variant: Start begins a new run with the saved flag cleared.
startPauseResumeClearsSaved ==
    /\ mounted = "TIME"
    /\ runner' = StartPauseResumeUpdate(runner, phases)
    /\ saved' = IF runner.status \in {"IDLE", "FINISHED"} THEN FALSE ELSE saved
    /\ Op(CASE runner.status \in {"IDLE", "FINISHED"} -> "start"
            [] runner.status = "RUNNING" -> "pause"
            [] OTHER -> "resume")
    /\ UNCHANGED <<PlanVars, AppVars, mounted, card, profileId, history, idCounter, RepVars, ViewVars>>

startPauseResume ==
    /\ mounted = "TIME"
    /\ runner' = StartPauseResumeUpdate(runner, phases)
    /\ Op(CASE runner.status \in {"IDLE", "FINISHED"} -> "start"
            [] runner.status = "RUNNING" -> "pause"
            [] OTHER -> "resume")
    /\ UNCHANGED <<PlanVars, AppVars, mounted, card, saved, profileId, history, idCounter, RepVars, ViewVars>>

\* The Skip button is disabled while IDLE.
skip ==
    /\ mounted = "TIME"
    /\ runner.status # "IDLE"
    /\ runner' = SkipUpdate(runner, phases)
    /\ Op("skip")
    /\ UNCHANGED <<PlanVars, AppVars, mounted, card, saved, profileId, history, idCounter, RepVars, ViewVars>>

\* Variant: Stop goes IDLE but keeps the position inside the plan.
stopKeepsPosition ==
    /\ mounted = "TIME"
    /\ runner' = [runner EXCEPT !.status = "IDLE", !.preWorkSec = 0]
    /\ Op("stop")
    /\ UNCHANGED <<PlanVars, AppVars, mounted, card, saved, profileId, history, idCounter, RepVars, ViewVars>>

\* stop(): back to the initial state of the current plan.
stop ==
    /\ mounted = "TIME"
    /\ runner' = IdleState(phases)
    /\ Op("stop")
    /\ UNCHANGED <<PlanVars, AppVars, mounted, card, saved, profileId, history, idCounter, RepVars, ViewVars>>

\* Variant: the commit logs the total that includes the countdowns.
saveToHistoryLogsCountdown ==
    /\ mounted = "TIME"
    /\ runner.status = "FINISHED"
    /\ saved \/ Len(history) < MaxHistory
    /\ IF saved \/ profileId = ""
          THEN UNCHANGED <<history, idCounter, saved>>
          ELSE /\ history' = addHistoryEntry(
                       makeTimeLogEntry(idCounter + 1, profileId, card, totalWithCountdown), history)
               /\ idCounter' = idCounter + 1
               /\ saved' = TRUE
    /\ Op("saveToHistory")
    /\ UNCHANGED <<PlanVars, AppVars, mounted, card, runner, profileId, RepVars, ViewVars>>

\* Variant: the commit does not look at the saved flag.
saveToHistoryNoFlag ==
    /\ mounted = "TIME"
    /\ runner.status = "FINISHED"
    /\ Len(history) < MaxHistory
    /\ history' = addHistoryEntry(
            makeTimeLogEntry(idCounter + 1, profileId, card, totalPlanned), history)
    /\ idCounter' = idCounter + 1
    /\ saved' = TRUE
    /\ Op("saveToHistory")
    /\ UNCHANGED <<PlanVars, AppVars, mounted, card, runner, profileId, RepVars, ViewVars>>

\* The commit; its button is part of the FINISHED panel.
saveToHistory ==
    /\ mounted = "TIME"
    /\ runner.status = "FINISHED"
    /\ saved \/ Len(history) < MaxHistory
    /\ IF saved \/ profileId = ""
          THEN UNCHANGED <<history, idCounter, saved>>
          ELSE /\ history' = addHistoryEntry(
                       makeTimeLogEntry(idCounter + 1, profileId, card, totalPlanned), history)
               /\ idCounter' = idCounter + 1
               /\ saved' = TRUE
    /\ Op("saveToHistory")
    /\ UNCHANGED <<PlanVars, AppVars, mounted, card, runner, profileId, RepVars, ViewVars>>

\* Variant: the card prop changes and the saved flag stays as it was.
CardChangeKeepsSaved ==
    /\ mounted = "TIME"
    /\ \E c \in TimeCards :
        /\ c # card
        /\ card' = c
        /\ runner' = IdleState(buildPhases(c))
        /\ saved' = saved
    /\ Op("cardChange")
    /\ UNCHANGED <<PlanVars, AppVars, mounted, profileId, history, idCounter, RepVars, ViewVars>>

\* The card prop changes: the reset effect, and setSaved(false) when the id
\* changed.
CardChange ==
    /\ mounted = "TIME"
    /\ \E c \in TimeCards :
        /\ c # card
        /\ card' = c
        /\ runner' = IdleState(buildPhases(c))
        /\ saved' = IF c.id # card.id THEN FALSE ELSE saved
    /\ Op("cardChange")
    /\ UNCHANGED <<PlanVars, AppVars, mounted, profileId, history, idCounter, RepVars, ViewVars>>

\* RepRunner: the auto transition effect has work to do on the committed
\* state.  React runs a pending effect before it handles the next event.
EffectPending(st) ==
    st.running /\ st.t = 0 /\ st.stage \in {"WARMUP", "REST", "COOLDOWN"}

\* The active profile changes: setSaved(false).
ProfileChange ==
    /\ mounted \in {"TIME", "REPS"}
    /\ mounted = "REPS" => ~EffectPending(rep)
    /\ \E p \in Profiles :
        /\ p # profileId
        /\ profileId' = p
    /\ saved' = FALSE
    /\ Op("profileChange")
    /\ UNCHANGED <<PlanVars, AppVars, mounted, card, runner, history, idCounter, RepVars, ViewVars>>

(***************************************************************************)
(* REPS: the RepRunner.                                                    *)
(***************************************************************************)
RepSet(exercise, reps, weightKg) ==
    [exercise |-> exercise, reps |-> reps, weightKg |-> weightKg]

\* RepCards with 1 .. MaxRepSets sets, with and without warmup, cooldown
\* and rest between the sets, and a target time per set of one second.
RepCards ==
    { [id |-> 100 + 8 * n + 4 * w + 2 * c + r,
       warmupSec |-> w, cooldownSec |-> c, restBetweenSetsSec |-> 2 * r,
       targetSetSec |-> 1,
       sets |-> [i \in 1..n |-> RepSet("squat", 10 - i, 5)]] :
      n \in 1..MaxRepSets, w \in 0..1, c \in 0..1, r \in 0..1 }

\* safeSets: the card's sets, or one placeholder set when there are none.
safeSets(c) == IF Len(c.sets) > 0 THEN c.sets ELSE <<RepSet("-", 0, 0)>>

RECURSIVE SumReps(_, _)
SumReps(sets, i) ==
    IF i > Len(sets) THEN 0 ELSE sets[i].reps + SumReps(sets, i + 1)

RECURSIVE SumKg(_, _)
SumKg(sets, i) ==
    IF i > Len(sets) THEN 0 ELSE sets[i].reps * sets[i].weightKg + SumKg(sets, i + 1)

\* Variant: the kg total is the reps total times the first set's weight.
repTotalsFirstWeight(c) ==
    [totalReps |-> SumReps(c.sets, 1),
     totalKg |-> SumReps(c.sets, 1) * (IF Len(c.sets) > 0 THEN c.sets[1].weightKg ELSE 0)]

\* repTotals: two reduce() calls over card.sets
repTotals(c) == [totalReps |-> SumReps(c.sets, 1), totalKg |-> SumKg(c.sets, 1)]

makeRepLogEntry(id, pid, c) ==
    [id |-> id, profileId |-> pid, kind |-> "REPS", cardId |-> c.id,
     totalReps |-> repTotals(c).totalReps, totalKg |-> repTotals(c).totalKg,
     setsCount |-> Len(c.sets)]

RepInitial == [idx |-> 0, stage |-> "READY", running |-> FALSE, t |-> 0]

\* Variant: goNextSet moves on without the Math.min cap and skips a set.
goNextSetSkipsOne(st, c) ==
    [st EXCEPT !.idx = st.idx + 2,
               !.stage = "SET", !.t = 0, !.running = TRUE]

\* goNextSet
goNextSet(st, c) ==
    [st EXCEPT !.idx = Min(Len(safeSets(c)) - 1, st.idx + 1),
               !.stage = "SET", !.t = 0, !.running = TRUE]

\* Variant: after REST the next SET starts on the same set index.
AutoAdvanceRestKeepsIndex(st, c) ==
    IF ~st.running \/ st.t # 0 THEN st
    ELSE IF st.stage = "WARMUP" THEN [st EXCEPT !.stage = "SET", !.t = 0, !.running = TRUE]
    ELSE IF st.stage = "REST" THEN [st EXCEPT !.stage = "SET", !.t = 0, !.running = TRUE]
    ELSE IF st.stage = "COOLDOWN" THEN [st EXCEPT !.running = FALSE, !.stage = "DONE"]
    ELSE st

\* Variant: the timer is left running when COOLDOWN ends.
AutoAdvanceKeepsRunning(st, c) ==
    IF ~st.running \/ st.t # 0 THEN st
    ELSE IF st.stage = "WARMUP" THEN [st EXCEPT !.stage = "SET", !.t = 0, !.running = TRUE]
    ELSE IF st.stage = "REST" THEN goNextSet(st, c)
    ELSE IF st.stage = "COOLDOWN" THEN [st EXCEPT !.stage = "DONE"]
    ELSE st

\* The body of the auto transition effect, run after a render in which t,
\* stage or running changed.
AutoAdvance(st, c) ==
    IF ~st.running \/ st.t # 0 THEN st
    ELSE IF st.stage = "WARMUP" THEN [st EXCEPT !.stage = "SET", !.t = 0, !.running = TRUE]
    ELSE IF st.stage = "REST" THEN goNextSet(st, c)
    ELSE IF st.stage = "COOLDOWN" THEN [st EXCEPT !.running = FALSE, !.stage = "DONE"]
    ELSE st

TimeVars == <<card, runner>>

\* Variant: Start always enters the first SET.
startWorkoutSkipsWarmup ==
    /\ mounted = "REPS"
    /\ rep.stage \in {"READY", "DONE"}
    /\ rep' = [rep EXCEPT !.idx = 0, !.stage = "SET", !.t = 0, !.running = TRUE]
    /\ Op("startWorkout")
    /\ UNCHANGED <<PlanVars, AppVars, mounted, saved, profileId, history, idCounter, repCard, TimeVars, ViewVars>>

\* Start, and "Nochmal" in DONE.
startWorkout ==
    /\ mounted = "REPS"
    /\ rep.stage \in {"READY", "DONE"}
    /\ rep' = IF repCard.warmupSec > 0
                 THEN [rep EXCEPT !.idx = 0, !.stage = "WARMUP", !.t = repCard.warmupSec, !.running = TRUE]
                 ELSE [rep EXCEPT !.idx = 0, !.stage = "SET", !.t = 0, !.running = TRUE]
    /\ Op("startWorkout")
    /\ UNCHANGED <<PlanVars, AppVars, mounted, saved, profileId, history, idCounter, repCard, TimeVars, ViewVars>>

\* Variant: ending a set that is not the last one moves to the next set at
\* once, when the rest begins.
stopSetAdvancesIndex ==
    /\ mounted = "REPS"
    /\ rep.stage = "SET"
    /\ LET isLast == rep.idx >= Len(safeSets(repCard)) - 1
       IN  rep' = IF isLast
                    THEN IF repCard.cooldownSec > 0
                            THEN [rep EXCEPT !.stage = "COOLDOWN", !.t = repCard.cooldownSec, !.running = TRUE]
                            ELSE [rep EXCEPT !.running = FALSE, !.stage = "DONE"]
                    ELSE [rep EXCEPT !.idx = rep.idx + 1, !.stage = "REST",
                                     !.t = repCard.restBetweenSetsSec, !.running = TRUE]
    /\ Op("stopSet")
    /\ UNCHANGED <<PlanVars, AppVars, mounted, saved, profileId, history, idCounter, repCard, TimeVars, ViewVars>>

\* "Satz fertig"
stopSet ==
    /\ mounted = "REPS"
    /\ rep.stage = "SET"
    /\ LET isLast == rep.idx >= Len(safeSets(repCard)) - 1
       IN  rep' = IF isLast
                    THEN IF repCard.cooldownSec > 0
                            THEN [rep EXCEPT !.stage = "COOLDOWN", !.t = repCard.cooldownSec, !.running = TRUE]
                            ELSE [rep EXCEPT !.running = FALSE, !.stage = "DONE"]
                    ELSE [rep EXCEPT !.stage = "REST", !.t = repCard.restBetweenSetsSec, !.running = TRUE]
    /\ Op("stopSet")
    /\ UNCHANGED <<PlanVars, AppVars, mounted, saved, profileId, history, idCounter, repCard, TimeVars, ViewVars>>

\* The Skip button of the countdown stages.
skipCountdown ==
    /\ mounted = "REPS"
    /\ rep.stage \in {"WARMUP", "REST", "COOLDOWN"}
    /\ ~EffectPending(rep)
    /\ rep' = [rep EXCEPT !.t = 0]
    /\ Op("skipCountdown")
    /\ UNCHANGED <<PlanVars, AppVars, mounted, saved, profileId, history, idCounter, repCard, TimeVars, ViewVars>>

\* Variant: the set ends by itself once the target time is over.
RepTickEndsSetAtTarget ==
    /\ mounted = "REPS"
    /\ rep.running
    /\ ~EffectPending(rep)
    /\ rep.stage = "SET" => rep.t < MaxSetSec
    /\ rep' = IF rep.stage = "SET"
                 THEN IF rep.t + 1 > repCard.targetSetSec
                         THEN [rep EXCEPT !.stage = "REST", !.t = repCard.restBetweenSetsSec]
                         ELSE [rep EXCEPT !.t = rep.t + 1]
              ELSE IF rep.stage \in {"REST", "WARMUP", "COOLDOWN"}
                 THEN [rep EXCEPT !.t = Max(0, rep.t - 1)]
              ELSE rep
    /\ Op("repTick")
    /\ UNCHANGED <<PlanVars, AppVars, mounted, saved, profileId, history, idCounter, repCard, TimeVars, ViewVars>>

\* The RepRunner interval callback, armed while running.
RepTick ==
    /\ mounted = "REPS"
    /\ rep.running
    /\ ~EffectPending(rep)
    /\ rep.stage = "SET" => rep.t < MaxSetSec
    /\ rep' = IF rep.stage = "SET" THEN [rep EXCEPT !.t = rep.t + 1]
              ELSE IF rep.stage \in {"REST", "WARMUP", "COOLDOWN"}
                 THEN [rep EXCEPT !.t = Max(0, rep.t - 1)]
              ELSE rep
    /\ Op("repTick")
    /\ UNCHANGED <<PlanVars, AppVars, mounted, saved, profileId, history, idCounter, repCard, TimeVars, ViewVars>>

\* The auto transition effect (Auto-Uebergaenge bei t==0), run on the state a
\* handler or a tick committed.
autoAdvance ==
    /\ mounted = "REPS"
    /\ EffectPending(rep)
    /\ rep' = AutoAdvance(rep, repCard)
    /\ Op("autoAdvance")
    /\ UNCHANGED <<PlanVars, AppVars, mounted, saved, profileId, history, idCounter, repCard, TimeVars, ViewVars>>

\* RepRunner.saveToHistory; its button is part of the DONE panel.
repSaveToHistory ==
    /\ mounted = "REPS"
    /\ rep.stage = "DONE"
    /\ saved \/ Len(history) < MaxHistory
    /\ IF saved \/ profileId = ""
          THEN UNCHANGED <<history, idCounter, saved>>
          ELSE /\ history' = addHistoryEntry(
                       makeRepLogEntry(idCounter + 1, profileId, repCard), history)
               /\ idCounter' = idCounter + 1
               /\ saved' = TRUE
    /\ Op("saveToHistory")
    /\ UNCHANGED <<PlanVars, AppVars, mounted, rep, profileId, repCard, TimeVars, ViewVars>>


(***************************************************************************)
(* RunnerView (src/unnamed/part_002): the runner that counts down to an    *)
(* endAt timestamp.  view.hasEndAt says that endAtMsRef.current is not     *)
(* null, and view.msLeft is then endAtMsRef.current - Date.now().          *)
(***************************************************************************)
Step(phase, durationSec, label, setIndex, repIndex) ==
    [phase |-> phase, durationSec |-> durationSec, label |-> label,
     setIndex |-> setIndex, repIndex |-> repIndex]

PlanRepBody(c, set, r) ==
    <<Step("WORK", c.workSec, "Uebung", set, r)>>
    \o (IF r < c.repsPerSet /\ c.restBetweenRepsSec > 0
           THEN <<Step("REST", c.restBetweenRepsSec, "Pause (Wdh)", set, r)>>
           ELSE <<>>)

RECURSIVE PlanRepLoop(_, _, _)
PlanRepLoop(c, set, r) ==
    IF r > c.repsPerSet THEN <<>>
    ELSE PlanRepBody(c, set, r) \o PlanRepLoop(c, set, r + 1)

RECURSIVE PlanSetLoop(_, _)
PlanSetLoop(c, set) ==
    IF set > c.sets THEN <<>>
    ELSE PlanRepLoop(c, set, 1)
         \o (IF set < c.sets /\ c.restBetweenSetsSec > 0
                THEN <<Step("REST", c.restBetweenSetsSec, "Satzpause", set, Null)>>
                ELSE <<>>)
         \o PlanSetLoop(c, set + 1)

buildPlan(c) ==
    LET steps ==
            (IF c.warmupSec > 0 THEN <<Step("WARMUP", c.warmupSec, "Aufwaermen", Null, Null)>> ELSE <<>>)
            \o PlanSetLoop(c, 1)
            \o (IF c.cooldownSec > 0 THEN <<Step("COOLDOWN", c.cooldownSec, "Cooldown", Null, Null)>> ELSE <<>>)
    IN  SelectSeq(steps, LAMBDA st : st.durationSec > 0)

ViewCards ==
    { [id |-> 200 + w, warmupSec |-> 1, workSec |-> w, restBetweenRepsSec |-> 0,
       repsPerSet |-> 1, restBetweenSetsSec |-> 1, sets |-> 2, cooldownSec |-> 0] :
      w \in 1..MaxWorkSec }

plan == buildPlan(viewCard)

\* plan[i]?.durationSec ?? 0
PlanDuration(pl, i) == IF i >= 0 /\ i < Len(pl) THEN pl[i + 1].durationSec ELSE 0

ViewInitial(pl) ==
    [status |-> "IDLE", stepIndex |-> 0, remainingSec |-> PlanDuration(pl, 0),
     hasEndAt |-> FALSE, msLeft |-> 0]

\* Math.ceil(a / b) for b > 0
CeilDiv(a, b) == -((-a) \div b)

goToStep(v, pl, i) ==
    LET next == Max(0, Min(i, Len(pl) - 1))
        dur == PlanDuration(pl, next)
    IN  [v EXCEPT !.stepIndex = next,
                  !.remainingSec = dur,
                  !.hasEndAt = (v.status = "RUNNING"),
                  !.msLeft = IF v.status = "RUNNING" THEN dur * 1000 ELSE 0]

finish(v) == [v EXCEPT !.status = "FINISHED", !.hasEndAt = FALSE, !.msLeft = 0, !.remainingSec = 0]

nextStep(v, pl) ==
    LET i == v.stepIndex + 1
    IN  IF i >= Len(pl) THEN finish(v) ELSE goToStep(v, pl, i)

\* The status button while not RUNNING.
viewStartOrResume ==
    /\ mounted = "VIEW"
    /\ view.status # "RUNNING"
    /\ Len(plan) # 0
    /\ LET v1 == IF view.status = "FINISHED"
                    THEN goToStep([view EXCEPT !.status = "IDLE"], plan, 0)
                    ELSE view
       IN  view' = [v1 EXCEPT !.status = "RUNNING", !.hasEndAt = TRUE,
                            !.msLeft = v1.remainingSec * 1000]
    /\ Op("viewStart")
    /\ UNCHANGED <<PlanVars, AppVars, mounted, saved, profileId, history, idCounter, viewCard, TimeVars, RepVars>>

\* The status button while RUNNING.
viewPause ==
    /\ mounted = "VIEW"
    /\ view.status = "RUNNING"
    /\ view' = [view EXCEPT !.status = "PAUSED", !.hasEndAt = FALSE, !.msLeft = 0]
    /\ Op("viewPause")
    /\ UNCHANGED <<PlanVars, AppVars, mounted, saved, profileId, history, idCounter, viewCard, TimeVars, RepVars>>

\* The Skip button is disabled while FINISHED.
viewSkip ==
    /\ mounted = "VIEW"
    /\ view.status # "FINISHED"
    /\ view' = nextStep(view, plan)
    /\ Op("viewSkip")
    /\ UNCHANGED <<PlanVars, AppVars, mounted, saved, profileId, history, idCounter, viewCard, TimeVars, RepVars>>

\* The 200 ms interval callback of the tick loop.
ViewTick ==
    /\ mounted = "VIEW"
    /\ IF view.status # "RUNNING" \/ ~view.hasEndAt
          THEN view' = view
          ELSE LET secLeft == Max(0, CeilDiv(view.msLeft, 1000))
                   v1 == [view EXCEPT !.remainingSec = secLeft]
               IN  view' = IF secLeft <= 0 THEN nextStep(v1, plan) ELSE v1
    /\ Op("viewTick")
    /\ UNCHANGED <<PlanVars, AppVars, mounted, saved, profileId, history, idCounter, viewCard, TimeVars, RepVars>>

\* Wall-clock time passes while the end timestamp is set; the interval may
\* be delayed by up to MaxLateMs past the end of a step.
ClockAdvance ==
    /\ mounted = "VIEW"
    /\ view.hasEndAt
    /\ view.msLeft - ViewTickMs >= -MaxLateMs
    /\ view' = [view EXCEPT !.msLeft = view.msLeft - ViewTickMs]
    /\ Op("clock")
    /\ UNCHANGED <<PlanVars, AppVars, mounted, saved, profileId, history, idCounter, viewCard, TimeVars, RepVars>>

InitTime ==
    /\ mounted = "TIME"
    /\ card \in TimeCards
    /\ runner = IdleState(phases)
    /\ repCard = Null
    /\ rep = Null
    /\ viewCard = Null
    /\ view = Null

InitReps ==
    /\ mounted = "REPS"
    /\ repCard \in RepCards
    /\ rep = RepInitial
    /\ card = Null
    /\ runner = Null
    /\ viewCard = Null
    /\ view = Null

InitView ==
    /\ mounted = "VIEW"
    /\ viewCard \in ViewCards
    /\ view = ViewInitial(plan)
    /\ card = Null
    /\ runner = Null
    /\ repCard = Null
    /\ rep = Null

Init ==
    /\ InitTime \/ InitReps \/ InitView
    /\ saved = FALSE
    /\ profileId \in Profiles
    /\ history = <<>>
    /\ idCounter = 0
    /\ lastOp = "init"
    /\ prevStatus = "init"
    /\ commitsInRow = 0
    /\ histLenBefore = 0
    /\ beforePause = <<>>
    /\ config = Null
    /\ builtPlan = Null
    /\ summary = Null
    /\ cards = Null
    /\ storage = Null
    /\ loaded = Null
    /\ profiles = Null
    /\ handsOff = FALSE
    /\ lastPhaseRef = -1

Next ==
    \/ Tick
    \/ startPauseResume
    \/ skip
    \/ stop
    \/ saveToHistory
    \/ CardChange
    \/ ProfileChange
    \/ startWorkout
    \/ stopSet
    \/ skipCountdown
    \/ RepTick
    \/ autoAdvance
    \/ repSaveToHistory
    \/ viewStartOrResume
    \/ viewPause
    \/ viewSkip
    \/ ViewTick
    \/ ClockAdvance

Spec == Init /\ [][Next]_vars

\* The RepRunner's auto transition effect is run by React after every commit
\* that changed t, stage or running: it is never left waiting.
FairSpec == Spec /\ WF_vars(autoAdvance)

(***************************************************************************)
(* The Runner alone, mounted for one session: the card prop may also be     *)
(* replaced by an edited card of the same id.                               *)
(***************************************************************************)
\* TimeCards and card 1 after an edit of its timing: a WARMUP of 2 seconds
\* and one WORK phase (another first phase, the same planned total).
SessionCards ==
    TimeCards \cup { [id |-> 1, timing |-> Timing(2, 1, 0, 1, 0, 1, 0)] }

\* The card prop is replaced by a card of the same id and another timing:
\* the reset effect runs, the saved effect does not.
CardEdit ==
    /\ mounted = "TIME"
    /\ \E c \in SessionCards :
        /\ c # card
        /\ c.id = card.id
        /\ card' = c
        /\ runner' = IdleState(buildPhases(c))
        /\ saved' = IF c.id # card.id THEN FALSE ELSE saved
    /\ Op("cardEdit")
    /\ UNCHANGED <<PlanVars, AppVars, mounted, profileId, history, idCounter, RepVars, ViewVars>>

InitSession ==
    /\ InitTime
    /\ saved = FALSE
    /\ profileId \in Profiles
    /\ history = <<>>
    /\ idCounter = 0
    /\ lastOp = "init"
    /\ prevStatus = "init"
    /\ commitsInRow = 0
    /\ histLenBefore = 0
    /\ beforePause = <<>>
    /\ config = Null
    /\ builtPlan = Null
    /\ summary = Null
    /\ cards = Null
    /\ storage = Null
    /\ loaded = Null
    /\ profiles = Null
    /\ handsOff = FALSE
    /\ lastPhaseRef = -1

NextSession ==
    \/ Tick
    \/ startPauseResume
    \/ skip
    \/ stop
    \/ saveToHistory
    \/ CardChange
    \/ CardEdit
    \/ ProfileChange

SessionSpec == InitSession /\ [][NextSession]_vars

(***************************************************************************)
(* The RepRunner alone, mounted for one session.                            *)
(***************************************************************************)
InitRepSession ==
    /\ InitReps
    /\ saved = FALSE
    /\ profileId \in Profiles
    /\ history = <<>>
    /\ idCounter = 0
    /\ lastOp = "init"
    /\ prevStatus = "init"
    /\ commitsInRow = 0
    /\ histLenBefore = 0
    /\ beforePause = <<>>
    /\ config = Null
    /\ builtPlan = Null
    /\ summary = Null
    /\ cards = Null
    /\ storage = Null
    /\ loaded = Null
    /\ profiles = Null
    /\ handsOff = FALSE
    /\ lastPhaseRef = -1

NextRepSession ==
    \/ startWorkout
    \/ stopSet
    \/ skipCountdown
    \/ RepTick
    \/ autoAdvance
    \/ repSaveToHistory
    \/ ProfileChange

RepSessionSpec == InitRepSession /\ [][NextRepSession]_vars

(***************************************************************************)
(* The Runner with its phase-change cue effect.  The effect runs after a    *)
(* commit that changed runner.phaseIndex or runner.status, before the next  *)
(* event is handled.                                                        *)
(***************************************************************************)
\* The effect would pass both of its early returns on the committed state.
CuePending ==
    /\ mounted = "TIME"
    /\ runner.status = "RUNNING"
    /\ runner.phaseIndex # lastPhaseRef

\* The effect body: remember the index, then beep and vibrate.
phaseCue ==
    /\ CuePending
    /\ lastPhaseRef' = runner.phaseIndex
    /\ lastOp' = "phaseCue"
    /\ UNCHANGED <<PlanVars, summary, cards, storage, loaded, profiles, handsOff,
                   mounted, card, runner, saved, profileId, history, idCounter,
                   RepVars, ViewVars, prevStatus, commitsInRow, histLenBefore,
                   beforePause>>

NextCue ==
    \/ ~CuePending /\ NextSession
    \/ phaseCue

CueSpec == InitSession /\ [][NextCue]_vars

(***************************************************************************)
(* The Runner left alone: the user acts as in Spec until they take their    *)
(* hands off, and from then on only the interval callback runs.  The        *)
(* interval is armed while RUNNING and fires every second.                  *)
(***************************************************************************)
LeaveAlone ==
    /\ mounted = "TIME"
    /\ ~handsOff
    /\ handsOff' = TRUE
    /\ lastOp' = "leaveAlone"
    /\ UNCHANGED <<PlanVars, summary, cards, storage, loaded, profiles,
                   lastPhaseRef, mounted, card, runner, saved, profileId, history, idCounter, RepVars,
                   ViewVars, prevStatus, commitsInRow, histLenBefore,
                   beforePause>>

NextRun ==
    \/ ~handsOff /\ Next
    \/ handsOff /\ Tick
    \/ LeaveAlone

RunSpec == Init /\ [][NextRun]_vars /\ WF_vars(handsOff /\ Tick)

(***************************************************************************)
(* The planner on its own: buildPhases applied to every TimingConfig of    *)
(* the bounded ranges.  sets and repsPerSet start at 0 so that the         *)
(* Math.max(1, .) clamps are exercised.                                    *)
(***************************************************************************)
PlanConfigs ==
    { Timing(w, k, rr, R, rs, S, c) :
        w \in 0..MaxPlanSec, k \in 0..MaxPlanSec, rr \in 0..MaxPlanSec,
        R \in 0..MaxPlanReps, rs \in 0..MaxPlanSec, S \in 0..MaxPlanSets,
        c \in 0..MaxPlanSec }

InitPlan ==
    /\ mounted = "PLAN"
    /\ config \in PlanConfigs
    /\ builtPlan = <<>>
    /\ card = Null
    /\ runner = Null
    /\ repCard = Null
    /\ rep = Null
    /\ viewCard = Null
    /\ view = Null
    /\ saved = FALSE
    /\ profileId = Null
    /\ history = <<>>
    /\ idCounter = 0
    /\ lastOp = "init"
    /\ prevStatus = "init"
    /\ commitsInRow = 0
    /\ histLenBefore = 0
    /\ beforePause = <<>>
    /\ summary = Null
    /\ cards = Null
    /\ storage = Null
    /\ loaded = Null
    /\ profiles = Null
    /\ handsOff = FALSE
    /\ lastPhaseRef = -1

\* const phases = useMemo(() => buildPhases(card), [card])
BuildPlan ==
    /\ mounted = "PLAN"
    /\ builtPlan = <<>>
    /\ builtPlan' = <<buildPhases([id |-> 0, timing |-> config])>>
    /\ UNCHANGED <<AppVars, mounted, config, card, runner, repCard, rep, viewCard,
                   view, saved, profileId, history, idCounter, lastOp, prevStatus,
                   commitsInRow, histLenBefore, beforePause>>

NextPlan == BuildPlan

SpecPlan == InitPlan /\ [][NextPlan]_vars

(***************************************************************************)
(* The rep summary on its own: repTotals and repBreakdown applied to       *)
(* RepCards whose sets are drawn from a small family.  Exercise names are  *)
(* sequences of characters here, so that trim() is computed and not        *)
(* assumed; "EMDASH" stands for the dash character of the placeholder name. *)
(***************************************************************************)
Placeholder == <<"EMDASH">>

ExerciseNames ==
    { <<>>, <<" ">>, <<"a">>, <<"A">>, <<" ", "a">>, <<"a", " ">>, Placeholder }
RepCounts == {8, 10}
Weights == {0, 5}

SummarySets ==
    { RepSet(e, r, w) : e \in ExerciseNames, r \in RepCounts, w \in Weights }

SummaryCards ==
    { [id |-> 0, sets |-> ss] :
        ss \in UNION { [1..n -> SummarySets] : n \in 1..MaxSummarySets } }

RECURSIVE TrimStart(_)
TrimStart(str) ==
    IF Len(str) > 0 /\ Head(str) = " " THEN TrimStart(Tail(str)) ELSE str

RECURSIVE TrimEnd(_)
TrimEnd(str) ==
    IF Len(str) > 0 /\ str[Len(str)] = " "
       THEN TrimEnd(SubSeq(str, 1, Len(str) - 1))
       ELSE str

\* String.prototype.trim on a sequence of characters
trim(str) == TrimEnd(TrimStart(str))

\* Variant: the name is used as it is written, only the empty name is replaced.
BreakdownKeyUntrimmed(s) ==
    IF s.exercise = <<>> THEN Placeholder ELSE s.exercise

\* const key = (s.exercise || DASH).trim() || DASH
BreakdownKey(s) ==
    LET named == IF s.exercise = <<>> THEN Placeholder ELSE s.exercise
        trimmed == trim(named)
    IN  IF trimmed = <<>> THEN Placeholder ELSE trimmed

RECURSIVE BreakdownLoop(_, _, _)
\* for (const s of card.sets) { ... map.set(key, prev) }, the Map kept as the
\* sequence of its entries in insertion order
BreakdownLoop(sets, i, groups) ==
    IF i > Len(sets) THEN groups
    ELSE LET key == BreakdownKey(sets[i])
             at == { j \in 1..Len(groups) : groups[j].exercise = key }
             addReps == sets[i].reps
             addKg == sets[i].reps * sets[i].weightKg
         IN  IF at = {}
                THEN BreakdownLoop(sets, i + 1,
                         Append(groups, [exercise |-> key, reps |-> addReps, kg |-> addKg]))
                ELSE LET j == CHOOSE k \in at : TRUE
                     IN  BreakdownLoop(sets, i + 1,
                             [groups EXCEPT ![j].reps = @ + addReps, ![j].kg = @ + addKg])

repBreakdown(c) == BreakdownLoop(c.sets, 1, <<>>)

InitSummary ==
    /\ mounted = "SUMMARY"
    /\ repCard \in SummaryCards
    /\ summary = <<>>
    /\ card = Null
    /\ runner = Null
    /\ rep = Null
    /\ viewCard = Null
    /\ view = Null
    /\ saved = FALSE
    /\ profileId = Null
    /\ history = <<>>
    /\ idCounter = 0
    /\ lastOp = "init"
    /\ prevStatus = "init"
    /\ commitsInRow = 0
    /\ histLenBefore = 0
    /\ beforePause = <<>>
    /\ config = Null
    /\ builtPlan = Null
    /\ cards = Null
    /\ storage = Null
    /\ loaded = Null
    /\ profiles = Null
    /\ handsOff = FALSE
    /\ lastPhaseRef = -1

\* const { totalReps, totalKg } = repTotals(card);
\* const breakdown = repBreakdown(card);
RepSummary ==
    /\ mounted = "SUMMARY"
    /\ summary = <<>>
    /\ summary' = <<[totals |-> repTotals(repCard), breakdown |-> repBreakdown(repCard)]>>
    /\ UNCHANGED <<PlanVars, cards, storage, loaded, profiles, handsOff, lastPhaseRef, mounted, card, runner,
                   repCard, rep, viewCard, view, saved, profileId, history,
                   idCounter, lastOp, prevStatus, commitsInRow, histLenBefore,
                   beforePause>>

NextSummary == RepSummary

SpecSummary == InitSummary /\ [][NextSummary]_vars

(***************************************************************************)
(* Importing shared results: importResult applied to payloads of a small   *)
(* family, into an App that starts with one profile and an empty history.  *)
(***************************************************************************)
ImportPayloads ==
    { [id |-> 0, kind |-> k, createdAt |-> at, cardTitle |-> ti] :
        k \in {"TIME", "REPS", "CARD"}, at \in {1000, 2000}, ti \in {"Push", "Pull"} }

\* The profile name sent along; "" stands for a missing or blank name.
ProfileNames == {"Anna", "anna", ""}

\* String.prototype.toLowerCase on the names of the model
toLowerCase(n) ==
    CASE n = "Anna" -> "anna"
      [] n = "Freund" -> "freund"
      [] OTHER -> n

\* normalizeLoadedEntry: <<entry>>, or <<>> for null
normalizeLoadedEntry(raw) ==
    IF raw.kind \notin {"TIME", "REPS"} THEN <<>>
    ELSE IF raw.profileId = "" THEN <<>>
    ELSE <<[id |-> raw.id, createdAt |-> raw.createdAt, profileId |-> raw.profileId,
            kind |-> raw.kind, cardTitle |-> raw.cardTitle]>>

InitImport ==
    /\ mounted = "IMPORT"
    /\ profiles = <<[id |-> 0, name |-> "Anna"]>>
    /\ history = <<>>
    /\ idCounter = 0
    /\ card = Null
    /\ runner = Null
    /\ repCard = Null
    /\ rep = Null
    /\ viewCard = Null
    /\ view = Null
    /\ saved = FALSE
    /\ profileId = Null
    /\ lastOp = "init"
    /\ prevStatus = "init"
    /\ commitsInRow = 0
    /\ histLenBefore = 0
    /\ beforePause = <<>>
    /\ config = Null
    /\ builtPlan = Null
    /\ summary = Null
    /\ cards = Null
    /\ storage = Null
    /\ loaded = Null
    /\ handsOff = FALSE
    /\ lastPhaseRef = -1

importResult ==
    /\ mounted = "IMPORT"
    /\ Len(history) < MaxHistory
    /\ \E rawEntry \in ImportPayloads, wantedProfileName \in ProfileNames :
          LET temp == normalizeLoadedEntry(
                          [id |-> rawEntry.id, kind |-> rawEntry.kind,
                           createdAt |-> rawEntry.createdAt,
                           cardTitle |-> rawEntry.cardTitle, profileId |-> "tmp"])
          IN  IF temp = <<>>
                 THEN UNCHANGED <<profiles, history, idCounter>>
                 ELSE LET name == IF wantedProfileName = "" THEN "Freund"
                                  ELSE wantedProfileName
                          found == { i \in 1..Len(profiles) :
                                       toLowerCase(profiles[i].name) = toLowerCase(name) }
                          existing == found # {}
                          made == IF existing THEN 0 ELSE 1
                          profile == IF existing
                                        THEN profiles[CHOOSE i \in found : \A j \in found : i <= j]
                                        ELSE [id |-> idCounter + 1, name |-> name]
                          entry == [temp[1] EXCEPT !.id = idCounter + made + 1,
                                                   !.profileId = profile.id]
                      IN  /\ profiles' = IF existing THEN profiles ELSE <<profile>> \o profiles
                          /\ history' = <<entry>> \o history
                          /\ idCounter' = idCounter + made + 1
    /\ lastOp' = "importResult"
    /\ UNCHANGED <<PlanVars, summary, cards, storage, loaded, handsOff, lastPhaseRef, mounted, card, runner,
                   repCard, rep, viewCard, view, saved, profileId, prevStatus,
                   commitsInRow, histLenBefore, beforePause>>

NextImport == importResult

SpecImport == InitImport /\ [][NextImport]_vars

(***************************************************************************)
(* Card storage: saveCards and loadCards on lists of TimeCards the editor  *)
(* can save.  The stored text is kept as the JSON value it denotes, every  *)
(* value tagged with its JSON type, which is what typeof and Number() of   *)
(* normalizeLoadedCard look at.                                            *)
(***************************************************************************)
JsonString(v) == [t |-> "string", v |-> v]
JsonNumber(n) == [t |-> "number", v |-> n]
JsonObject(fields) == [t |-> "object", v |-> fields]
JsonArray(items) == [t |-> "array", v |-> items]

\* Durations and counts of the stored cards: 0 and a positive value for every
\* optional duration, the two ends of [1, 99] for sets and repsPerSet.
StoreDurations == {0, 30}
StoreCounts == {1, 99}
StoreTimings ==
    { Timing(w, 20, rr, n, rs, n, c) :
        w \in StoreDurations, rr \in StoreDurations, rs \in StoreDurations,
        c \in StoreDurations, n \in StoreCounts }

StoreCardLists ==
    UNION { [1..n -> { [kind |-> "TIME", title |-> "Tabata", timing |-> tm] :
                         tm \in StoreTimings }] : n \in 1..MaxStoredCards }

\* The card list with the ids the App gave the cards.
WithIds(list) == [i \in 1..Len(list) |->
                    [kind |-> list[i].kind, id |-> <<"card", i>>,
                     title |-> list[i].title, timing |-> list[i].timing]]

\* JSON.parse(JSON.stringify(cards))
stringifyCards(list) ==
    JsonArray([i \in 1..Len(list) |->
        JsonObject([kind |-> JsonString(list[i].kind),
                    id |-> JsonString(list[i].id),
                    title |-> JsonString(list[i].title),
                    timing |-> JsonObject(
                        [warmupSec |-> JsonNumber(list[i].timing.warmupSec),
                         workSec |-> JsonNumber(list[i].timing.workSec),
                         restBetweenRepsSec |-> JsonNumber(list[i].timing.restBetweenRepsSec),
                         repsPerSet |-> JsonNumber(list[i].timing.repsPerSet),
                         restBetweenSetsSec |-> JsonNumber(list[i].timing.restBetweenSetsSec),
                         sets |-> JsonNumber(list[i].timing.sets),
                         cooldownSec |-> JsonNumber(list[i].timing.cooldownSec)])])])

\* Number(x) || d
NumberOr(raw, d) == IF raw.t = "number" /\ raw.v # 0 THEN raw.v ELSE d

clampInt(n, lo, hi) == Min(hi, Max(lo, n))

\* normalizeLoadedCard, TIME branch: <<card>>, or <<>> for null
normalizeLoadedCard(raw) ==
    IF raw.t # "object" THEN <<>>
    ELSE IF ~(raw.v.kind.t = "string" /\ raw.v.kind.v = "TIME") THEN <<>>
    ELSE LET tm == raw.v.timing.v
             setsCount == clampInt(NumberOr(tm.sets, 4), 1, 99)
         IN  <<[kind |-> "TIME",
                id |-> IF raw.v.id.t = "string" THEN raw.v.id.v ELSE <<"card", 0>>,
                title |-> IF raw.v.title.t = "string" THEN raw.v.title.v ELSE "Interval",
                timing |->
                    [warmupSec |-> NumberOr(tm.warmupSec, 0),
                     workSec |-> NumberOr(tm.workSec, 20),
                     restBetweenRepsSec |-> NumberOr(tm.restBetweenRepsSec, 0),
                     repsPerSet |-> clampInt(NumberOr(tm.repsPerSet, 1), 1, 99),
                     restBetweenSetsSec |-> NumberOr(tm.restBetweenSetsSec, 60),
                     sets |-> setsCount,
                     cooldownSec |-> NumberOr(tm.cooldownSec, 0)]]>>

RECURSIVE NormalizeAll(_, _)
\* parsed.map((x) => normalizeLoadedCard(x)).filter(Boolean)
NormalizeAll(items, i) ==
    IF i > Len(items) THEN <<>>
    ELSE normalizeLoadedCard(items[i]) \o NormalizeAll(items, i + 1)

InitStore ==
    /\ mounted = "STORE"
    /\ cards \in { WithIds(l) : l \in StoreCardLists }
    /\ storage = <<>>
    /\ loaded = <<>>
    /\ card = Null
    /\ runner = Null
    /\ repCard = Null
    /\ rep = Null
    /\ viewCard = Null
    /\ view = Null
    /\ saved = FALSE
    /\ profileId = Null
    /\ history = <<>>
    /\ idCounter = 0
    /\ lastOp = "init"
    /\ prevStatus = "init"
    /\ commitsInRow = 0
    /\ histLenBefore = 0
    /\ beforePause = <<>>
    /\ config = Null
    /\ builtPlan = Null
    /\ summary = Null
    /\ profiles = Null
    /\ handsOff = FALSE
    /\ lastPhaseRef = -1

\* saveCards(cards): localStorage.setItem(CARDS_KEY, JSON.stringify(cards))
saveCards ==
    /\ mounted = "STORE"
    /\ storage = <<>>
    /\ storage' = <<stringifyCards(cards)>>
    /\ lastOp' = "saveCards"
    /\ UNCHANGED <<PlanVars, summary, cards, loaded, profiles, handsOff, lastPhaseRef, mounted, card, runner,
                   repCard, rep, viewCard, view, saved, profileId, history,
                   idCounter, prevStatus, commitsInRow, histLenBefore, beforePause>>

\* loadCards(), at the next start of the App
loadCards ==
    /\ mounted = "STORE"
    /\ loaded = <<>>
    /\ loaded' = <<IF storage = <<>> THEN <<>>
                   ELSE IF storage[1].t # "array" THEN <<>>
                   ELSE NormalizeAll(storage[1].v, 1)>>
    /\ lastOp' = "loadCards"
    /\ UNCHANGED <<PlanVars, summary, cards, storage, profiles, handsOff, lastPhaseRef, mounted, card, runner,
                   repCard, rep, viewCard, view, saved, profileId, history,
                   idCounter, prevStatus, commitsInRow, histLenBefore, beforePause>>

NextStore == saveCards \/ loadCards

SpecStore == InitStore /\ [][NextStore]_vars

(***************************************************************************)
(* Properties.                                                             *)
(***************************************************************************)
IsTime == mounted = "TIME"
CurPhase == At(phases, runner.phaseIndex)
HasNext == runner.phaseIndex + 1 < Len(phases)
NextPhase == At(phases, runner.phaseIndex + 1)

\* C1 (as stated): after FINISHED (Runner) or DONE (RepRunner), two or more
\* saveToHistory calls in a row add exactly one entry to the history.
C1_TwoCommitsAddExactlyOne ==
    commitsInRow >= 2 => Len(history) = histLenBefore + 1

\* C1 (amended): a saveToHistory call in FINISHED / DONE adds exactly one
\* entry (at the head, with a fresh id, for the active profile) and sets the
\* saved flag when the flag was clear, and changes nothing when the flag was
\* already set; a call that directly follows another call changes nothing,
\* so calls made in a row add at most one entry.
C1_CommitWriteOnce ==
    [][ lastOp' = "saveToHistory" =>
          /\ (~saved => /\ Len(history') = Len(history) + 1
                        /\ Tail(history') = history
                        /\ Head(history').profileId = profileId
                        /\ \A i \in 1..Len(history) : history[i].id # Head(history').id
                        /\ saved')
          /\ (saved => history' = history /\ saved' = saved)
          /\ (lastOp = "saveToHistory" => history' = history /\ saved' = saved)
          /\ Len(history') <= histLenBefore' + 1
          /\ (mounted = "TIME" => runner' = runner /\ runner.status = "FINISHED")
          /\ (mounted = "REPS" => rep' = rep /\ rep.stage = "DONE")
      ]_vars

C1_Witness ==
    /\ IsTime
    /\ runner.status = "FINISHED"
    /\ commitsInRow >= 2
    /\ Len(history) = histLenBefore + 1
    /\ saved

\* C2: while the Runner is FINISHED (on an unchanged card) a tick changes no
\* field of the RunnerState, and a step that leaves FINISHED is a Start or a
\* Stop.
C2_FinishedTerminal ==
    [][ (IsTime /\ runner.status = "FINISHED" /\ card' = card) =>
          /\ (lastOp' = "tick" => runner' = runner)
          /\ (runner'.status # "FINISHED" => lastOp' \in {"start", "stop"})
      ]_vars

C2_Witness ==
    /\ IsTime
    /\ runner.status = "FINISHED"
    /\ lastOp = "tick"
    /\ prevStatus = "FINISHED"

\* C3: a single tick increases phaseIndex (stepIndex in RunnerView) by at
\* most 1, also over plans made of 1-second phases and after late ticks.
C3_OneAdvancePerTick ==
    [][ /\ (lastOp' = "tick" => runner'.phaseIndex <= runner.phaseIndex + 1)
        /\ (lastOp' = "viewTick" => view'.stepIndex <= view.stepIndex + 1)
      ]_vars

C3_Witness ==
    /\ IsTime
    /\ lastOp = "tick"
    /\ prevStatus = "RUNNING"
    /\ runner.status = "RUNNING"
    /\ runner.phaseIndex = 1
    /\ runner.remainingSec = 1
    /\ runner.preWorkSec = 0
    /\ CurPhase.durationSec = 1
    /\ At(phases, 0).durationSec = 1
    /\ HasNext

\* Prefix sums over the plan: PrefixDur[k] is the duration of the first k
\* phases, PrefixWork[k] the number of WORK phases among them.
PrefixDur[k \in 0..Len(phases)] ==
    IF k = 0 THEN 0 ELSE PrefixDur[k - 1] + phases[k].durationSec
PrefixWork[k \in 0..Len(phases)] ==
    IF k = 0 THEN 0 ELSE PrefixWork[k - 1] + (IF phases[k].type = "WORK" THEN 1 ELSE 0)

\* remainingSec + preWorkSec + durations of all later phases
\* + 4 x (number of later WORK phases)
ClaimedTotal ==
    LET n == Len(phases)
        cur == runner.phaseIndex + 1
    IN  runner.remainingSec + runner.preWorkSec
        + (PrefixDur[n] - PrefixDur[cur])
        + 4 * (PrefixWork[n] - PrefixWork[cur])

\* C4 (as stated): in every reachable RunnerState, IDLE included,
\* totalRemainingSec is the claimed function of the other fields and the plan.
C4_TotalIsPureFunctionEverywhere ==
    IsTime => runner.totalRemainingSec = ClaimedTotal

\* C4 (amended): in every reachable RUNNING, PAUSED and FINISHED state
\* totalRemainingSec is the claimed function of the other fields and the
\* plan; in IDLE it is the sum of all phase durations plus 4 x (number of all
\* WORK phases of the plan), which counts the countdown of phase 0 as well.
C4_TotalIsPureFunction ==
    IsTime =>
        IF runner.status = "IDLE"
           THEN runner.totalRemainingSec =
                    PrefixDur[Len(phases)] + 4 * PrefixWork[Len(phases)]
           ELSE runner.totalRemainingSec = ClaimedTotal

C4_Witness ==
    /\ IsTime
    /\ runner.status = "RUNNING"
    /\ lastOp = "tick"
    /\ runner.preWorkSec = 2
    /\ runner.phaseIndex = 1
    /\ PrefixWork[Len(phases)] - PrefixWork[runner.phaseIndex + 1] >= 1
    /\ runner.totalRemainingSec > runner.remainingSec + runner.preWorkSec

\* C5: a tick in RUNNING with preWorkSec = 0: with remainingSec = 1 it enters
\* the next phase (full duration, countdown 4 exactly for a WORK phase, still
\* RUNNING) or, without a next phase, FINISHED with all counters 0; with
\* remainingSec > 1 it only decrements remainingSec by 1.
C5_EndOfPhaseTick ==
    [][ (lastOp' = "tick" /\ runner.status = "RUNNING" /\ runner.preWorkSec = 0) =>
          /\ (runner.remainingSec = 1 /\ HasNext =>
                /\ runner'.phaseIndex = runner.phaseIndex + 1
                /\ runner'.remainingSec = NextPhase.durationSec
                /\ runner'.preWorkSec = (IF NextPhase.type = "WORK" THEN 4 ELSE 0)
                /\ runner'.status = "RUNNING")
          /\ (runner.remainingSec = 1 /\ ~HasNext =>
                /\ runner'.status = "FINISHED"
                /\ runner'.remainingSec = 0
                /\ runner'.totalRemainingSec = 0
                /\ runner'.preWorkSec = 0)
          /\ (runner.remainingSec > 1 =>
                /\ runner'.remainingSec = runner.remainingSec - 1
                /\ runner'.phaseIndex = runner.phaseIndex
                /\ runner'.preWorkSec = 0
                /\ runner'.status = "RUNNING")
      ]_vars

C5_Witness ==
    /\ IsTime
    /\ lastOp = "tick"
    /\ prevStatus = "RUNNING"
    /\ runner.status = "RUNNING"
    /\ runner.phaseIndex >= 1
    /\ CurPhase.type = "WORK"
    /\ runner.preWorkSec = 4
    /\ runner.remainingSec = CurPhase.durationSec

\* C6: a tick in RUNNING with preWorkSec > 0 decrements preWorkSec by 1 and
\* leaves phaseIndex, remainingSec and status unchanged; while the countdown
\* is active remainingSec is still the full duration of the (WORK) phase, and
\* a tick lowers remainingSec only when preWorkSec is 0.
C6_PreWorkTick ==
    [][ IsTime =>
          /\ (lastOp' = "tick" /\ runner.status = "RUNNING" /\ runner.preWorkSec > 0 =>
                /\ runner'.preWorkSec = runner.preWorkSec - 1
                /\ runner'.phaseIndex = runner.phaseIndex
                /\ runner'.remainingSec = runner.remainingSec
                /\ runner'.status = runner.status)
          /\ (runner.preWorkSec > 0 =>
                /\ CurPhase.type = "WORK"
                /\ runner.remainingSec = CurPhase.durationSec)
          /\ (lastOp' = "tick" /\ runner'.phaseIndex = runner.phaseIndex
                /\ runner'.remainingSec < runner.remainingSec /\ runner'.status = "RUNNING"
                => runner.preWorkSec = 0)
      ]_vars

C6_Witness ==
    /\ IsTime
    /\ lastOp = "tick"
    /\ runner.status = "RUNNING"
    /\ runner.preWorkSec = 3
    /\ CurPhase.durationSec >= 2
    /\ runner.remainingSec = CurPhase.durationSec

\* C7: Start from IDLE or FINISHED gives RUNNING, phaseIndex 0, the duration
\* of phase 0, and a countdown of 4 exactly when phase 0 is a WORK phase.
C7_Start ==
    [][ (lastOp' \in {"start", "pause", "resume"} /\ runner.status \in {"IDLE", "FINISHED"}) =>
          /\ runner'.status = "RUNNING"
          /\ runner'.phaseIndex = 0
          /\ runner'.remainingSec = phases[1].durationSec
          /\ runner'.preWorkSec = (IF phases[1].type = "WORK" THEN 4 ELSE 0)
      ]_vars

C7_Witness ==
    /\ IsTime
    /\ lastOp = "start"
    /\ prevStatus = "FINISHED"
    /\ runner.status = "RUNNING"
    /\ Len(phases) > 1
    /\ runner.phaseIndex = 0
    /\ runner.preWorkSec = 4

\* C8: Skip in RUNNING with preWorkSec > 0 clears the countdown and leaves
\* phaseIndex, remainingSec and status unchanged.
C8_SkipInCountdown ==
    [][ (lastOp' = "skip" /\ runner.status = "RUNNING" /\ runner.preWorkSec > 0) =>
          /\ runner'.preWorkSec = 0
          /\ runner'.phaseIndex = runner.phaseIndex
          /\ runner'.remainingSec = runner.remainingSec
          /\ runner'.status = "RUNNING"
      ]_vars

C8_Witness ==
    /\ IsTime
    /\ lastOp = "skip"
    /\ prevStatus = "RUNNING"
    /\ runner.status = "RUNNING"
    /\ CurPhase.type = "WORK"
    /\ runner.preWorkSec = 0
    /\ runner.remainingSec = CurPhase.durationSec
    /\ HasNext

\* C9: Skip in RUNNING with preWorkSec = 0 gives exactly the RunnerState that
\* a tick gives from the same phaseIndex with remainingSec = 1.
C9_SkipIsNaturalAdvance ==
    [][ (lastOp' = "skip" /\ runner.status = "RUNNING" /\ runner.preWorkSec = 0) =>
          runner' = TickUpdate([runner EXCEPT !.remainingSec = 1], phases)
      ]_vars

C9_Witness ==
    /\ IsTime
    /\ lastOp = "skip"
    /\ prevStatus = "RUNNING"
    /\ runner.status = "RUNNING"
    /\ runner.phaseIndex >= 2
    /\ CurPhase.type = "WORK"
    /\ runner.preWorkSec = 4
    /\ HasNext

\* C10: Skip invoked while PAUSED gives RUNNING, or FINISHED when there is no
\* next phase; never PAUSED.
C10_SkipFromPausedRuns ==
    [][ (lastOp' = "skip" /\ runner.status = "PAUSED") =>
          runner'.status = (IF runner.preWorkSec = 0 /\ ~HasNext THEN "FINISHED" ELSE "RUNNING")
      ]_vars

\* C11: Pause changes only the status (RUNNING to PAUSED), Resume changes only
\* the status (PAUSED to RUNNING), a tick while PAUSED changes nothing; so a
\* Resume that follows a Pause with only ticks in between gives back exactly
\* the RunnerState the Pause was pressed in.
C11_PauseResumeRoundTrip ==
    [][ IsTime =>
          /\ (lastOp' = "pause" =>
                /\ runner.status = "RUNNING"
                /\ runner' = [runner EXCEPT !.status = "PAUSED"])
          /\ (lastOp' = "resume" =>
                /\ runner.status = "PAUSED"
                /\ runner' = [runner EXCEPT !.status = "RUNNING"])
          /\ (lastOp' = "tick" /\ runner.status = "PAUSED" => runner' = runner)
          /\ (lastOp' = "resume" /\ beforePause' # <<>> => runner' = beforePause'[1])
      ]_vars

\* A Resume pressed after a Pause in the middle of a phase, with ticks in
\* between.
C11_Witness ==
    /\ IsTime
    /\ lastOp = "resume"
    /\ prevStatus = "PAUSED"
    /\ beforePause # <<>>
    /\ beforePause[2] >= 1
    /\ runner = beforePause[1]
    /\ runner.status = "RUNNING"
    /\ runner.remainingSec < CurPhase.durationSec

\* C12: Stop, whatever the state it is pressed in, gives status IDLE, phase
\* index 0, remainingSec the first phase's duration and preWorkSec 0, and
\* leaves the plan as it was.
C12_StopResets ==
    [][ (IsTime /\ lastOp' = "stop") =>
          /\ runner'.status = "IDLE"
          /\ runner'.phaseIndex = 0
          /\ runner'.remainingSec = At(phases, 0).durationSec
          /\ runner'.preWorkSec = 0
          /\ card' = card
          /\ buildPhases(card') = phases
      ]_vars

\* A Stop pressed while PAUSED.
C12_Witness ==
    /\ IsTime
    /\ lastOp = "stop"
    /\ prevStatus = "PAUSED"
    /\ runner.status = "IDLE"
    /\ runner.phaseIndex = 0
    /\ runner.preWorkSec = 0

\* C13: no transition of the Runner (Start, Pause, Resume, tick, Skip, Stop),
\* the one that reaches FINISHED included, changes the history; the history
\* changes only by the commit, made while the status is FINISHED, and then by
\* one entry put in front.
C13_HistoryOnlyByCommit ==
    [][ IsTime =>
          /\ (lastOp' \in {"start", "pause", "resume", "tick", "skip", "stop"} =>
                history' = history)
          /\ (history' # history =>
                /\ lastOp' = "saveToHistory"
                /\ runner.status = "FINISHED"
                /\ runner' = runner
                /\ history' = <<history'[1]>> \o history)
      ]_vars

\* The tick that reaches FINISHED has left the history empty.
C13_Witness ==
    /\ IsTime
    /\ lastOp = "tick"
    /\ prevStatus = "RUNNING"
    /\ runner.status = "FINISHED"
    /\ history = <<>>

\* The planner's result, its clamped counts and the sums the plan claims use.
HasPlan == mounted = "PLAN" /\ builtPlan # <<>>
Planned == builtPlan[1]
PlanS == Max(1, config.sets)
PlanR == Max(1, config.repsPerSet)
AllDurationsZero ==
    /\ config.warmupSec = 0
    /\ config.workSec = 0
    /\ config.restBetweenRepsSec = 0
    /\ config.restBetweenSetsSec = 0
    /\ config.cooldownSec = 0
PlannedDurSum[k \in 0..Len(Planned)] ==
    IF k = 0 THEN 0 ELSE PlannedDurSum[k - 1] + Planned[k].durationSec
ClosedFormTotal ==
    config.warmupSec + PlanS * PlanR * config.workSec
      + PlanS * (PlanR - 1) * config.restBetweenRepsSec
      + (PlanS - 1) * config.restBetweenSetsSec + config.cooldownSec

\* C14 (as stated): for every TimingConfig, totalSessionSec of the plan is the
\* sum of the plan's durations and equals the closed form
\* warmup + S*R*work + S*(R-1)*restReps + (S-1)*restSets + cooldown.
C14_TotalIsClosedFormEverywhere ==
    HasPlan =>
        /\ totalSessionSec(Planned) = PlannedDurSum[Len(Planned)]
        /\ totalSessionSec(Planned) = ClosedFormTotal

\* C14 (amended): totalSessionSec of the plan is the sum of the plan's
\* durations; it equals the closed form when the closed form is positive, and
\* is the fallback phase's 20 seconds when the closed form is 0, that is when
\* the loops emit no phase (all five durations 0, or the only positive
\* durations are rests that one set or one rep per set never uses).
C14_TotalIsClosedForm ==
    HasPlan =>
        /\ totalSessionSec(Planned) = PlannedDurSum[Len(Planned)]
        /\ totalSessionSec(Planned) =
             IF ClosedFormTotal = 0 THEN FallbackWorkSec ELSE ClosedFormTotal
        /\ (AllDurationsZero => ClosedFormTotal = 0)

\* A plan with warmup, several sets of several reps, both rests and cooldown.
C14_Witness ==
    /\ HasPlan
    /\ config.sets >= 2
    /\ config.repsPerSet >= 2
    /\ config.warmupSec > 0
    /\ config.workSec > 0
    /\ config.restBetweenRepsSec > 0
    /\ config.restBetweenSetsSec > 0
    /\ config.cooldownSec > 0
    /\ totalSessionSec(Planned) = ClosedFormTotal
    /\ Len(Planned) = 2 + PlanS * (2 * PlanR - 1) + (PlanS - 1)

\* C15: no REST phase of restKind REP carries the last rep of its set, no REST
\* phase of restKind SET carries the last set; so one rep per set gives no REP
\* rest and one set gives no SET rest, whatever the rest durations.
C15_NoTrailingRest ==
    HasPlan =>
        /\ \A i \in 1..Len(Planned) :
              /\ (Planned[i].type = "REST" /\ Planned[i].restKind = "REP") =>
                    (Planned[i].rep >= 1 /\ Planned[i].rep < PlanR)
              /\ (Planned[i].type = "REST" /\ Planned[i].restKind = "SET") =>
                    (Planned[i].set >= 1 /\ Planned[i].set < PlanS)
        /\ (PlanR = 1 => \A i \in 1..Len(Planned) : Planned[i].restKind # "REP")
        /\ (PlanS = 1 => \A i \in 1..Len(Planned) : Planned[i].restKind # "SET")

\* One rep per set with a positive rep rest, several sets with a positive set
\* rest: the plan has set rests and no rep rest.
C15_Witness ==
    /\ HasPlan
    /\ config.repsPerSet = 1
    /\ config.restBetweenRepsSec > 0
    /\ config.sets >= 2
    /\ config.restBetweenSetsSec > 0
    /\ \E i \in 1..Len(Planned) : Planned[i].restKind = "SET"
    /\ \A i \in 1..Len(Planned) : Planned[i].restKind # "REP"

\* C16: when all five durations are 0 the plan is exactly one phase, WORK of
\* 20 seconds, set 1, rep 1, whatever sets and repsPerSet are.
C16_FallbackPhase ==
    (HasPlan /\ AllDurationsZero) =>
        /\ Len(Planned) = 1
        /\ Planned[1].type = "WORK"
        /\ Planned[1].durationSec = 20
        /\ Planned[1].set = 1
        /\ Planned[1].rep = 1

\* The all-zero config with several sets and reps, planned.
C16_Witness ==
    /\ HasPlan
    /\ AllDurationsZero
    /\ config.sets >= 2
    /\ config.repsPerSet >= 2
    /\ Len(Planned) = 1

\* C17: every plan is non-empty and every phase in it has durationSec > 0.
C17_NonEmptyPositive ==
    HasPlan =>
        /\ Len(Planned) >= 1
        /\ \A i \in 1..Len(Planned) : Planned[i].durationSec > 0

\* A config with workSec 0 and a positive rep rest: the plan is made of the
\* rests alone.
C17_Witness ==
    /\ HasPlan
    /\ config.workSec = 0
    /\ config.warmupSec = 0
    /\ config.cooldownSec = 0
    /\ config.restBetweenRepsSec > 0
    /\ config.repsPerSet >= 2
    /\ Len(Planned) >= 1
    /\ \A i \in 1..Len(Planned) : Planned[i].type = "REST" /\ Planned[i].durationSec > 0

IsReps == mounted = "REPS"
IsLastSet == rep.idx >= Len(safeSets(repCard)) - 1

\* C18: ending a set (Stop in SET) that is the last set gives COOLDOWN with
\* t = cooldownSec when cooldownSec > 0 and DONE otherwise; ending a set that
\* is not the last gives REST with t = restBetweenSetsSec; the set index is
\* the one the set was ended on.
C18_StopSet ==
    [][ (IsReps /\ lastOp' = "stopSet") =>
          /\ rep.stage = "SET"
          /\ rep'.idx = rep.idx
          /\ IF IsLastSet
                THEN IF repCard.cooldownSec > 0
                        THEN /\ rep'.stage = "COOLDOWN"
                             /\ rep'.t = repCard.cooldownSec
                             /\ rep'.running
                        ELSE /\ rep'.stage = "DONE"
                             /\ ~rep'.running
                ELSE /\ rep'.stage = "REST"
                     /\ rep'.t = repCard.restBetweenSetsSec
                     /\ rep'.running
      ]_vars

\* The first of several sets has just been ended: REST, still on index 0.
C18_Witness ==
    /\ IsReps
    /\ lastOp = "stopSet"
    /\ prevStatus = "SET"
    /\ Len(safeSets(repCard)) >= 2
    /\ rep.stage = "REST"
    /\ rep.idx = 0
    /\ rep.t = repCard.restBetweenSetsSec

\* The steps of the countdown stages: a tick takes 1 off t and never goes
\* below 0, Skip sets t to 0, and with t = 0 the only step is the auto advance,
\* WARMUP to SET on index 0, REST to SET on the next index, COOLDOWN to DONE.
C19_CountdownSteps ==
    [][ (IsReps /\ rep.stage \in {"WARMUP", "REST", "COOLDOWN"}) =>
          /\ rep.running
          /\ rep.t >= 0
          /\ lastOp' = "repTick" =>
                /\ rep' = [rep EXCEPT !.t = rep.t - 1]
                /\ rep'.t >= 0
          /\ lastOp' = "skipCountdown" => rep' = [rep EXCEPT !.t = 0]
          /\ rep.t = 0 =>
                /\ lastOp' = "autoAdvance"
                /\ rep' = CASE rep.stage = "WARMUP" ->
                                 [idx |-> 0, stage |-> "SET", running |-> TRUE, t |-> 0]
                            [] rep.stage = "REST" ->
                                 [idx |-> rep.idx + 1, stage |-> "SET", running |-> TRUE, t |-> 0]
                            [] rep.stage = "COOLDOWN" ->
                                 [idx |-> rep.idx, stage |-> "DONE", running |-> FALSE, t |-> 0]
      ]_vars

\* C19: in WARMUP, REST and COOLDOWN a tick takes 1 off t and never goes below
\* 0; when t has reached 0, by ticks or by Skip, the runner auto-advances:
\* WARMUP to SET on index 0, REST to SET on the next index, COOLDOWN to DONE,
\* and it does advance (the countdown stage with t = 0 is always left).
C19_CountdownAutoAdvance ==
    /\ C19_CountdownSteps
    /\ (IsReps /\ rep.stage = "WARMUP" /\ rep.t = 0) ~> (IsReps /\ rep.stage = "SET")
    /\ (IsReps /\ rep.stage = "REST" /\ rep.t = 0) ~> (IsReps /\ rep.stage = "SET")
    /\ (IsReps /\ rep.stage = "COOLDOWN" /\ rep.t = 0) ~> (IsReps /\ rep.stage = "DONE")

\* A REST has run out and the runner stands in the next SET.
C19_Witness ==
    /\ IsReps
    /\ lastOp = "autoAdvance"
    /\ prevStatus = "REST"
    /\ rep.stage = "SET"
    /\ rep.idx = 1
    /\ rep.t = 0
    /\ rep.running

\* C20: Start in READY sets the index to 0 and enters WARMUP with
\* t = warmupSec when warmupSec > 0, and SET with t = 0 otherwise.
C20_StartWorkout ==
    [][ (IsReps /\ lastOp' = "startWorkout" /\ rep.stage = "READY") =>
          /\ rep'.idx = 0
          /\ rep'.running
          /\ IF repCard.warmupSec > 0
                THEN rep'.stage = "WARMUP" /\ rep'.t = repCard.warmupSec
                ELSE rep'.stage = "SET" /\ rep'.t = 0
      ]_vars

\* Start pressed in READY on a card with a warmup.
C20_Witness ==
    /\ IsReps
    /\ lastOp = "startWorkout"
    /\ prevStatus = "READY"
    /\ repCard.warmupSec > 0
    /\ rep.stage = "WARMUP"
    /\ rep.t = repCard.warmupSec
    /\ rep.idx = 0

\* C21: while the stage is SET a tick only adds 1 to the elapsed counter, also
\* past targetSetSec; no effect is waiting there; the stage and the set index
\* change only by the set-complete action (stopSet).
C21_SetIsUserPaced ==
    [][ (IsReps /\ rep.stage = "SET") =>
          /\ rep.running
          /\ ~EffectPending(rep)
          /\ lastOp' = "repTick" => rep' = [rep EXCEPT !.t = rep.t + 1]
          /\ (rep'.stage # "SET" \/ rep'.idx # rep.idx) => lastOp' = "stopSet"
      ]_vars

\* A tick has taken the elapsed time of a set past the target time.
C21_Witness ==
    /\ IsReps
    /\ lastOp = "repTick"
    /\ prevStatus = "SET"
    /\ rep.stage = "SET"
    /\ rep.running
    /\ rep.t > repCard.targetSetSec

\* C22: in DONE the timer is stopped, so no tick and no effect acts; a step
\* that changes the RepRunner's state there is run-again, which gives set
\* index 0, running, and WARMUP with t = warmupSec when warmupSec > 0, SET with
\* t = 0 otherwise.
C22_DoneTerminal ==
    [][ (IsReps /\ rep.stage = "DONE") =>
          /\ ~rep.running
          /\ lastOp' \notin {"repTick", "autoAdvance", "stopSet", "skipCountdown"}
          /\ rep' # rep =>
                /\ lastOp' = "startWorkout"
                /\ rep' = IF repCard.warmupSec > 0
                             THEN [idx |-> 0, stage |-> "WARMUP", running |-> TRUE,
                                   t |-> repCard.warmupSec]
                             ELSE [idx |-> 0, stage |-> "SET", running |-> TRUE, t |-> 0]
      ]_vars

\* Run-again pressed in DONE on a card with several sets and a warmup: the
\* runner is back on set index 0, in WARMUP.
C22_Witness ==
    /\ IsReps
    /\ lastOp = "startWorkout"
    /\ prevStatus = "DONE"
    /\ Len(repCard.sets) >= 2
    /\ repCard.warmupSec > 0
    /\ rep.stage = "WARMUP"
    /\ rep.idx = 0

\* The rep summary's result and the sums the summary claims use.
HasSummary == mounted = "SUMMARY" /\ summary # <<>>
SummarySetsOf == repCard.sets
Totals == summary[1].totals
Groups == summary[1].breakdown
SetRepsSum[k \in 0..Len(SummarySetsOf)] ==
    IF k = 0 THEN 0 ELSE SetRepsSum[k - 1] + SummarySetsOf[k].reps
SetKgSum[k \in 0..Len(SummarySetsOf)] ==
    IF k = 0 THEN 0
    ELSE SetKgSum[k - 1] + SummarySetsOf[k].reps * SummarySetsOf[k].weightKg
GroupRepsSum[k \in 0..Len(Groups)] ==
    IF k = 0 THEN 0 ELSE GroupRepsSum[k - 1] + Groups[k].reps
GroupKgSum[k \in 0..Len(Groups)] ==
    IF k = 0 THEN 0 ELSE GroupKgSum[k - 1] + Groups[k].kg
IsBlankName(n) == \A i \in 1..Len(n) : n[i] = " "
\* The name without the spaces around it, the placeholder for a blank name.
NameKey(n) ==
    IF IsBlankName(n) THEN Placeholder
    ELSE LET inked == { i \in 1..Len(n) : n[i] # " " }
             lo == CHOOSE i \in inked : \A j \in inked : i <= j
             hi == CHOOSE i \in inked : \A j \in inked : i >= j
         IN  SubSeq(n, lo, hi)
RepsOfKey(key) ==
    LET f[k \in 0..Len(SummarySetsOf)] ==
            IF k = 0 THEN 0
            ELSE f[k - 1] + (IF NameKey(SummarySetsOf[k].exercise) = key
                                THEN SummarySetsOf[k].reps ELSE 0)
    IN  f[Len(SummarySetsOf)]
KgOfKey(key) ==
    LET f[k \in 0..Len(SummarySetsOf)] ==
            IF k = 0 THEN 0
            ELSE f[k - 1] + (IF NameKey(SummarySetsOf[k].exercise) = key
                                THEN SummarySetsOf[k].reps * SummarySetsOf[k].weightKg
                                ELSE 0)
    IN  f[Len(SummarySetsOf)]
GroupsAddUp ==
    /\ GroupRepsSum[Len(Groups)] = Totals.totalReps
    /\ GroupKgSum[Len(Groups)] = Totals.totalKg

\* C23: repTotals gives totalReps = the sum of reps over the sets and totalKg =
\* the sum of reps x weightKg over the sets, and gives the same again when it
\* is computed again; sets (10 reps, 5 kg), (8 reps, 5 kg) give 18 and 90.
C23_RepTotals ==
    HasSummary =>
        /\ Totals.totalReps = SetRepsSum[Len(SummarySetsOf)]
        /\ Totals.totalKg = SetKgSum[Len(SummarySetsOf)]
        /\ repTotals(repCard) = Totals
        /\ ( /\ Len(SummarySetsOf) = 2
             /\ SummarySetsOf[1].reps = 10 /\ SummarySetsOf[1].weightKg = 5
             /\ SummarySetsOf[2].reps = 8 /\ SummarySetsOf[2].weightKg = 5 )
           => (Totals.totalReps = 18 /\ Totals.totalKg = 90)

\* The summary of the sets (10 reps, 5 kg), (8 reps, 5 kg).
C23_Witness ==
    /\ HasSummary
    /\ Len(SummarySetsOf) = 2
    /\ SummarySetsOf[1].reps = 10 /\ SummarySetsOf[1].weightKg = 5
    /\ SummarySetsOf[2].reps = 8 /\ SummarySetsOf[2].weightKg = 5
    /\ Totals = [totalReps |-> 18, totalKg |-> 90]

\* C24 (as stated): one group per distinct exercise name as written, plus one
\* placeholder group when some name is blank; the groups add up to the totals.
C24_GroupPerDistinctName ==
    HasSummary =>
        /\ Len(Groups) =
             Cardinality({ SummarySetsOf[i].exercise : i \in
                             { k \in 1..Len(SummarySetsOf) :
                                 ~IsBlankName(SummarySetsOf[k].exercise) } })
             + (IF \E i \in 1..Len(SummarySetsOf) : IsBlankName(SummarySetsOf[i].exercise)
                   THEN 1 ELSE 0)
        /\ GroupsAddUp

\* C24 (amended): one group per distinct name after the spaces around it are
\* taken off (case-sensitive), blank names counting as the placeholder name;
\* each group holds the reps and the reps x weightKg of the sets with its
\* name; the groups add up to repTotals.
C24_GroupPerTrimmedName ==
    HasSummary =>
        /\ \A i, j \in 1..Len(Groups) : Groups[i].exercise = Groups[j].exercise => i = j
        /\ { Groups[i].exercise : i \in 1..Len(Groups) } =
             { NameKey(SummarySetsOf[k].exercise) : k \in 1..Len(SummarySetsOf) }
        /\ \A i \in 1..Len(Groups) :
              /\ Groups[i].reps = RepsOfKey(Groups[i].exercise)
              /\ Groups[i].kg = KgOfKey(Groups[i].exercise)
        /\ GroupsAddUp

\* Two sets whose names differ only by a space around them: one group.
C24_Witness ==
    /\ HasSummary
    /\ Len(SummarySetsOf) = 2
    /\ SummarySetsOf[1].exercise # SummarySetsOf[2].exercise
    /\ ~IsBlankName(SummarySetsOf[1].exercise)
    /\ ~IsBlankName(SummarySetsOf[2].exercise)
    /\ Len(Groups) = 1
    /\ Groups[1].reps = SummarySetsOf[1].reps + SummarySetsOf[2].reps

\* C25: the log builders and addHistoryEntry do not deduplicate: every commit
\* made with the saved flag clear puts one new entry in front of the history,
\* with an id no entry of the history has, also when the history already holds
\* an entry for the same profile, card and run; two such commits make the
\* history two entries longer.
C25_BuildersDoNotDedup ==
    [][ ((IsTime \/ IsReps) /\ lastOp' = "saveToHistory" /\ ~saved) =>
          /\ Len(history') = Len(history) + 1
          /\ Tail(history') = history
          /\ \A i \in 1..Len(history) : history[i].id # history'[1].id
          /\ history'[1].profileId = profileId
          /\ history'[1].kind = mounted
      ]_vars

\* Two entries for the same profile, card and run, equal but for their ids.
C25_Witness ==
    /\ IsTime \/ IsReps
    /\ lastOp = "saveToHistory"
    /\ Len(history) = 2
    /\ history[1].id # history[2].id
    /\ [history[1] EXCEPT !.id = 0] = [history[2] EXCEPT !.id = 0]
    /\ histLenBefore = 1

\* C26: importing a result whose profile, kind, timestamp and title equal those
\* of an entry already in the history inserts no second entry: the history
\* never holds two entries equal in these four fields.
C26_ImportDedup ==
    mounted = "IMPORT" =>
        \A i, j \in 1..Len(history) :
            ( /\ history[i].profileId = history[j].profileId
              /\ history[i].kind = history[j].kind
              /\ history[i].createdAt = history[j].createdAt
              /\ history[i].cardTitle = history[j].cardTitle ) => i = j

\* C27: for every list of TimeCards the application can save, saveCards
\* followed by loadCards gives a list of the same length and order whose cards
\* have the same id, the same title and the same seven timing values.
C27_CardsRoundTrip ==
    (mounted = "STORE" /\ storage # <<>> /\ loaded # <<>> /\ lastOp = "loadCards") =>
        /\ Len(loaded[1]) = Len(cards)
        /\ \A i \in 1..Len(cards) :
              /\ loaded[1][i].id = cards[i].id
              /\ loaded[1][i].title = cards[i].title
              /\ loaded[1][i].timing = cards[i].timing


WorkPhaseCount == Cardinality({i \in 1..Len(phases) : phases[i].type = "WORK"})
TicksFromStart == totalSessionSec(phases) + 4 * WorkPhaseCount

\* C28: in every RUNNING state totalRemainingSec is the number of ticks still
\* needed to reach FINISHED: Start sets it to totalSessionSec(plan) + 4 x
\* (number of WORK phases), it is at least 1 while RUNNING, every tick in
\* RUNNING lowers it by exactly 1 and reaches FINISHED exactly when it gets
\* to 0, and a run that the user leaves alone always reaches FINISHED.
C28_TotalIsTicksToFinish ==
    /\ [](IsTime /\ runner.status = "RUNNING" => runner.totalRemainingSec >= 1)
    /\ [][ (IsTime /\ lastOp' = "start") =>
              /\ runner'.status = "RUNNING"
              /\ runner'.totalRemainingSec = TicksFromStart
         ]_vars
    /\ [][ (IsTime /\ runner.status = "RUNNING" /\ lastOp' = "tick") =>
              /\ runner'.totalRemainingSec = runner.totalRemainingSec - 1
              /\ runner'.status \in {"RUNNING", "FINISHED"}
              /\ (runner'.status = "FINISHED") <=> (runner'.totalRemainingSec = 0)
         ]_vars
    /\ (IsTime /\ handsOff /\ runner.status = "RUNNING")
          ~> (IsTime /\ runner.status = "FINISHED" /\ runner.totalRemainingSec = 0)

\* A run left alone while RUNNING was finished by a tick.
C28_Witness ==
    /\ IsTime
    /\ handsOff
    /\ lastOp = "tick"
    /\ prevStatus = "RUNNING"
    /\ runner.status = "FINISHED"
    /\ runner.totalRemainingSec = 0

\* C29: remainingSec is well-formed in every reachable state of the Runner:
\* while the status is not FINISHED it lies between 1 and the duration of the
\* current phase, and it is 0 exactly when the status is FINISHED.
C29_RemainingWellFormed ==
    IsTime =>
        /\ runner.status # "FINISHED" =>
              /\ 1 <= runner.remainingSec
              /\ runner.remainingSec <= phases[runner.phaseIndex + 1].durationSec
        /\ (runner.remainingSec = 0) <=> (runner.status = "FINISHED")

\* A tick inside a phase left the Runner RUNNING with fewer seconds than the
\* phase lasts.
C29_Witness ==
    /\ IsTime
    /\ lastOp = "tick"
    /\ runner.status = "RUNNING"
    /\ runner.remainingSec >= 1
    /\ runner.remainingSec < phases[runner.phaseIndex + 1].durationSec

\* C30: phaseIndex is a valid index into the plan in every reachable state of
\* the Runner, whatever the interleaving of Start, Pause, Resume, Skip, Stop
\* and ticks.
C30_PhaseIndexValid ==
    IsTime =>
        /\ runner.phaseIndex \in Nat
        /\ 0 <= runner.phaseIndex
        /\ runner.phaseIndex < Len(phases)

\* Skip was invoked in FINISHED, the index resting on the last phase.
C30_Witness ==
    /\ IsTime
    /\ lastOp = "skip"
    /\ prevStatus = "FINISHED"
    /\ runner.phaseIndex = Len(phases) - 1
    /\ Len(phases) > 1

\* C31: in every reachable state of the Runner 0 <= preWorkSec <= 4; while
\* preWorkSec > 0 the status is RUNNING or PAUSED, the current phase is a WORK
\* phase and remainingSec is still that phase's full duration; preWorkSec is
\* 0 in IDLE and in FINISHED.
C31_PreWorkCountdown ==
    IsTime =>
        /\ runner.preWorkSec \in 0..4
        /\ runner.preWorkSec > 0 =>
              /\ runner.status \in {"RUNNING", "PAUSED"}
              /\ phases[runner.phaseIndex + 1].type = "WORK"
              /\ runner.remainingSec = phases[runner.phaseIndex + 1].durationSec
        /\ runner.status \in {"IDLE", "FINISHED"} => runner.preWorkSec = 0

\* A countdown tick left the countdown running in front of a WORK phase
\* longer than a second.
C31_Witness ==
    /\ IsTime
    /\ lastOp = "tick"
    /\ runner.status = "RUNNING"
    /\ runner.preWorkSec \in 1..3
    /\ phases[runner.phaseIndex + 1].type = "WORK"
    /\ runner.remainingSec = phases[runner.phaseIndex + 1].durationSec
    /\ runner.remainingSec > 1

\* C32: the saved flag of the Runner is cleared only by a change of the card
\* id or of the profile, never by Start, Stop or a new FINISHED; while it is
\* set no step adds a history entry, so on one card and profile at most one
\* entry is written however many runs complete.
C32_SavedFlagSticks ==
    [][ (IsTime /\ saved) =>
          /\ (~saved' => (card'.id # card.id \/ profileId' # profileId))
          /\ ((card'.id = card.id /\ profileId' = profileId) => saved')
          /\ history' = history
      ]_vars

\* After a commit, a later run on the same card and profile was finished by
\* a tick and the flag is still set.
C32_Witness ==
    /\ IsTime
    /\ saved
    /\ Len(history) = 1
    /\ lastOp = "tick"
    /\ prevStatus = "RUNNING"
    /\ runner.status = "FINISHED"

\* The seconds of the card's plan, countdowns not counted.
PlanSeconds == PrefixDur[Len(phases)]

\* C33: the committed TIME entry records the planned duration: whichever way
\* the run reached FINISHED, its plannedTotalSec is the sum of the phase
\* durations of the card's plan, without any pre-work countdown second.
C33_EntryRecordsPlannedTotal ==
    [][ (IsTime /\ lastOp' = "saveToHistory" /\ history' # history) =>
          /\ Len(history') = Len(history) + 1
          /\ history'[1].kind = "TIME"
          /\ history'[1].cardId = card.id
          /\ history'[1].plannedTotalSec = PlanSeconds
          /\ history'[1].plannedTotalSec < TicksFromStart
      ]_vars

\* The commit in FINISHED has just written the newest entry, for the current
\* card, holding the planned duration.
C33_Witness ==
    /\ IsTime
    /\ lastOp = "saveToHistory"
    /\ saved
    /\ Len(history) >= 1
    /\ history[1].cardId = card.id
    /\ history[1].plannedTotalSec = PlanSeconds
    /\ runner.status = "FINISHED"

\* C34: every entry into a phase while RUNNING (Start entering phase 0, a
\* tick or Skip advancing to the next index) fires the phase-entry cue exactly
\* once, also in a later run started after Stop or after FINISHED; no other
\* step (Pause, Resume, a countdown tick, a tick inside a phase) fires it.
C34_CueOncePerEntry ==
    [][ IsTime =>
          LET entered ==
                /\ runner'.status = "RUNNING"
                /\ \/ lastOp' = "start"
                   \/ /\ lastOp' \in {"tick", "skip"}
                      /\ runner'.phaseIndex # runner.phaseIndex
          IN  IF lastOp' = "phaseCue"
                 THEN ~CuePending'
                 ELSE CuePending' <=> entered
      ]_vars

\* C35: when the card given to the mounted Runner changes (another id, or the
\* same id with another timing), in any status, the RunnerState becomes what
\* Stop produces on the new plan: IDLE, phaseIndex 0, remainingSec the duration
\* of the new plan's first phase, preWorkSec 0, the total of the new plan;
\* the saved flag is cleared when the card id changed.
C35_CardChangeResets ==
    [][ (IsTime /\ card' # card) =>
          /\ runner'.status = "IDLE"
          /\ runner'.phaseIndex = 0
          /\ runner'.remainingSec = buildPhases(card')[1].durationSec
          /\ runner'.preWorkSec = 0
          /\ runner'.totalRemainingSec = TicksFromStart'
          /\ (card'.id # card.id => ~saved')
      ]_vars

\* After a commit in FINISHED the card was replaced by one with another id:
\* the Runner is IDLE on the new plan and the flag is cleared.
C35_Witness ==
    /\ IsTime
    /\ lastOp = "cardChange"
    /\ prevStatus = "FINISHED"
    /\ Len(history) = 1
    /\ history[1].cardId # card.id
    /\ history[1].profileId = profileId
    /\ ~saved
    /\ runner = IdleState(phases)

IsWorkPhase(p) == p.type = "WORK"
PlannedWork == SelectSeq(Planned, IsWorkPhase)

\* C36: with workSec > 0 the plan holds exactly S * R WORK phases
\* (S = max(1, sets), R = max(1, repsPerSet)), the k-th of them tagged with
\* the k-th pair (set, rep) of 1..S x 1..R in lexicographic order; in every
\* plan a WARMUP phase is the first phase and a COOLDOWN phase the last, both
\* tagged set 0, rep 0.
C36_PlanOrder ==
    HasPlan =>
        /\ config.workSec > 0 =>
              /\ Len(PlannedWork) = PlanS * PlanR
              /\ \A k \in 1..Len(PlannedWork) :
                    /\ PlannedWork[k].set = ((k - 1) \div PlanR) + 1
                    /\ PlannedWork[k].rep = ((k - 1) % PlanR) + 1
        /\ \A i \in 1..Len(Planned) :
              /\ Planned[i].type = "WARMUP" =>
                    i = 1 /\ Planned[i].set = 0 /\ Planned[i].rep = 0
              /\ Planned[i].type = "COOLDOWN" =>
                    i = Len(Planned) /\ Planned[i].set = 0 /\ Planned[i].rep = 0

\* A plan of several sets of several reps between a warmup and a cooldown.
C36_Witness ==
    /\ HasPlan
    /\ config.workSec > 0
    /\ config.sets >= 2
    /\ config.repsPerSet >= 2
    /\ config.warmupSec > 0
    /\ config.cooldownSec > 0
    /\ Planned[1].type = "WARMUP"
    /\ Planned[Len(Planned)].type = "COOLDOWN"
    /\ Len(PlannedWork) = config.sets * config.repsPerSet

\* The duration the config gives to a phase of this type and rest kind.
ConfiguredDuration(p) ==
    CASE p.type = "WARMUP" -> config.warmupSec
      [] p.type = "WORK" -> config.workSec
      [] p.type = "COOLDOWN" -> config.cooldownSec
      [] p.type = "REST" /\ p.restKind = "REP" -> config.restBetweenRepsSec
      [] OTHER -> config.restBetweenSetsSec
AllFromConfig ==
    \A i \in 1..Len(Planned) :
        /\ Planned[i].durationSec = ConfiguredDuration(Planned[i])
        /\ Planned[i].durationSec > 0
IsFallbackPlan ==
    /\ Len(Planned) = 1
    /\ Planned[1].type = "WORK"
    /\ Planned[1].durationSec = 20
    /\ Planned[1].set = 1
    /\ Planned[1].rep = 1
\* No loop of the planner has anything to emit.
NothingToPlan ==
    /\ config.warmupSec = 0
    /\ config.workSec = 0
    /\ config.cooldownSec = 0
    /\ PlanR = 1 \/ config.restBetweenRepsSec = 0
    /\ PlanS = 1 \/ config.restBetweenSetsSec = 0

\* C37 (as stated): the synthetic 20-second WORK phase appears only when all
\* five durations are 0: for every config with a positive duration, every
\* phase of the plan takes its duration from the config.
C37_FallbackOnlyWhenAllZero ==
    (HasPlan /\ ~AllDurationsZero) => (AllFromConfig /\ ~IsFallbackPlan)

\* C37 (amended): the synthetic 20-second WORK phase is the plan exactly when
\* the loops emit nothing, that is when warmup, work and cooldown are 0 and
\* each rest is 0 or unused (rep rest with one rep per set, set rest with one
\* set); for every other config every phase takes its positive duration from
\* the config.  All five durations 0 is one such case.
C37_FallbackWhenNothingPlanned ==
    HasPlan =>
        /\ IF NothingToPlan THEN IsFallbackPlan ELSE AllFromConfig
        /\ AllDurationsZero => NothingToPlan

\* A config with a positive set rest, one set and no work: the plan is the
\* fallback phase although a duration is positive.
C37_Witness ==
    /\ HasPlan
    /\ ~AllDurationsZero
    /\ config.restBetweenSetsSec > 0
    /\ NothingToPlan
    /\ IsFallbackPlan

RepSetCount == Len(safeSets(repCard))
\* The sets completed in the current run, as the state shows them: the sets
\* before idx, and the set at idx once its stage is behind the SET stage.
SetsCompleted ==
    IF rep.stage = "READY" THEN 0
    ELSE rep.idx + (IF rep.stage \in {"REST", "COOLDOWN", "DONE"} THEN 1 ELSE 0)

\* C38: in the RepRunner on a card with n sets the set index stays within
\* 0..n-1; Start puts it to 0 and the only other change is + 1 when a REST
\* ends and the next SET begins, so the sets are entered once each in the
\* order 0, 1, ..., n-1; each set-complete action completes exactly one set,
\* no tick, Skip or effect completes or repeats one, and DONE is reached
\* exactly when n sets are completed.
C38_RepRunnerProgress ==
    /\ [](IsReps => /\ rep.idx \in 0..(RepSetCount - 1)
                    /\ rep.stage = "DONE" => SetsCompleted = RepSetCount
                    /\ rep.stage \in {"REST", "SET", "WARMUP"} => SetsCompleted < RepSetCount)
    /\ [][ IsReps =>
              /\ lastOp' = "startWorkout" => (rep'.idx = 0 /\ SetsCompleted' = 0)
              /\ lastOp' = "stopSet" => SetsCompleted' = SetsCompleted + 1
              /\ lastOp' \notin {"startWorkout", "stopSet"} => SetsCompleted' = SetsCompleted
              /\ (rep'.idx # rep.idx /\ lastOp' # "startWorkout") =>
                    /\ rep'.idx = rep.idx + 1
                    /\ rep.stage = "REST"
                    /\ rep'.stage = "SET"
              /\ (rep'.stage = "SET" /\ rep.stage = "REST") => rep'.idx = rep.idx + 1
         ]_vars

\* The last of several sets was completed after a rest of 0 seconds and the
\* run is DONE.
C38_Witness ==
    /\ IsReps
    /\ RepSetCount >= 2
    /\ repCard.restBetweenSetsSec = 0
    /\ repCard.cooldownSec = 0
    /\ lastOp = "stopSet"
    /\ rep.stage = "DONE"
    /\ rep.idx = RepSetCount - 1
====
